---- MODULE Spec2Model ----
(***************************************************************************)
(* JanSetu backend: the cache-aware read/write consistency layer.          *)
(*                                                                         *)
(* The model follows the controllers (reports, social, admin, field        *)
(* admin), the Redis service they share and the transaction wrapper of     *)
(* the database utilities.  One request is handled at a time: a handler    *)
(* is one action that runs the handler's statements in source order        *)
(* (BEGIN, callback, COMMIT or ROLLBACK, cache commands, response) over a  *)
(* local copy of the tables and of the cache, and leaves the response in   *)
(* `res`.  Every cache command a handler issues is logged in source order  *)
(* with the transaction phase it was issued in.                            *)
(*                                                                         *)
(* A cache key is the sequence of the segments that the source joins with  *)
(* ':'; a pattern is such a sequence in which the segment "*" is the glob  *)
(* wildcard.                                                               *)
(***************************************************************************)
EXTENDS Integers, Sequences, FiniteSets, TLC

VARIABLES
    reports,        \* table reports: id -> row
    users,          \* table users: id -> counters
    social_posts,   \* table social_posts, by report id
    social_votes,   \* table social_votes: <<post, user>> -> vote_type
    social_views,   \* table social_views: set of <<post, user>>
    admins,         \* table admins: id -> row
    cache,          \* Redis: key -> TTL (seconds) given by SETEX
    redis,          \* RedisService.isConnected (client is set)
    res,            \* the response of the request just handled, or NoRes
    kq              \* the record of a specification of one function: the pair
                    \* of read requests whose keys are compared, one call
                    \* of transaction(), one Redis key with its value, the
                    \* rows and the pooled clients of concurrent requests,
                    \* or the two stores of a phone OTP

vars == <<reports, users, social_posts, social_votes, social_views, admins,
          cache, redis, res, kq>>

dbvars == <<reports, users, social_posts, social_votes, social_views, admins>>

-----------------------------------------------------------------------------
(* Domains of the model *)

Users == {"u1", "u2"}
ReportIds == {"r1"}
Admins == {"a1", "a2"}
NoAdmin == "none"
Locations == {"A"}
NoLoc == "null"

\* a JavaScript value that is `undefined`
Undefined == "<undefined>"

NoError == "<none>"
NoRes == [h |-> "none", args |-> <<>>, status |-> 0, pre |-> {}, log |-> <<>>,
          tx |-> "none"]

-----------------------------------------------------------------------------
(* JavaScript expressions used to build keys *)

\* `${v}` in a template literal
Str(v) == IF v = Undefined THEN "undefined" ELSE v

\* v || d
OrElse(v, d) == IF v = Undefined \/ v = "" THEN d ELSE v

\* if (v) ...
Truthy(v) == ~(v = Undefined \/ v = "")

-----------------------------------------------------------------------------
(* Redis glob matching (SCAN ... MATCH pattern) over ':'-joined segments.  *)
(* '*' matches any run of characters, ':' included, so a "*" segment       *)
(* matches one or more whole segments.                                     *)

RECURSIVE GlobMatch(_, _)
GlobMatch(pat, key) ==
    IF pat = <<>> THEN key = <<>>
    ELSE IF key = <<>> THEN FALSE
    ELSE IF Head(pat) = "*"
         THEN GlobMatch(Tail(pat), Tail(key))
              \/ (Len(key) > 1 /\ GlobMatch(pat, Tail(key)))
         ELSE Head(pat) = Head(key) /\ GlobMatch(Tail(pat), Tail(key))

-----------------------------------------------------------------------------
(* RedisService.  `s` is the handler's local state; s.cache is the content *)
(* of Redis, s.log the cache commands issued so far, s.tx the phase of the *)
(* handler's transaction.  `ok` is FALSE when the Redis client rejects the *)
(* command (timeout, connection lost before the 'error' event is seen).    *)

isAvailable == redis

Logged(s, op, arg, ok) ==
    [s EXCEPT !.log = Append(@, [op |-> op, arg |-> arg, tx |-> s.tx,
                                 ok |-> isAvailable /\ ok])]

Without(c, keys) == [k \in (DOMAIN c) \ keys |-> c[k]]

With(c, key, ttl) == [k \in (DOMAIN c) \cup {key} |-> IF k = key THEN ttl ELSE c[k]]

\* async set(key, value, ttl)
set(s, ok, key, ttl) ==
    LET l == Logged(s, "set", key, ok) IN
    IF ~isAvailable THEN l
    ELSE IF ~ok THEN l
    ELSE [l EXCEPT !.cache = With(@, key, ttl)]

\* get without the isAvailable() guard, answering from a stale handle
get_unguarded(s, ok, key) ==
    IF ~ok THEN FALSE ELSE key \in DOMAIN s.cache

\* async get(key): TRUE when a value is returned, FALSE for null
get(s, ok, key) ==
    IF ~isAvailable THEN FALSE
    ELSE IF ~ok THEN FALSE
    ELSE key \in DOMAIN s.cache

\* async scanKeys(pattern)
scanKeys(s, ok, pattern) ==
    IF ~isAvailable THEN {}
    ELSE IF ~ok THEN {}
    ELSE {k \in DOMAIN s.cache : GlobMatch(pattern, k)}

\* async del(keyOrKeys)
del(s, ok, keys) ==
    IF ~isAvailable THEN s
    ELSE IF ~ok THEN s
    ELSE [s EXCEPT !.cache = Without(@, keys)]

\* async delete(key)
delete(s, ok, key) == del(Logged(s, "delete", key, ok), ok, {key})

\* async deletePattern(pattern)
deletePattern(s, ok, pattern) ==
    LET l == Logged(s, "deletePattern", pattern, ok) IN
    IF ~isAvailable THEN l
    ELSE LET keys == scanKeys(l, ok, pattern) IN
         IF keys # {} /\ ok THEN [l EXCEPT !.cache = Without(@, keys)] ELSE l

\* async invalidatePattern(pattern)
invalidatePattern(s, ok, pattern) ==
    LET l == Logged(s, "invalidatePattern", pattern, ok)
        keys == scanKeys(l, ok, pattern)
    IN IF keys # {} THEN del(l, ok, keys) ELSE l

\* the handlers' own `scanKeys(pattern)` followed by `del(keys)`
scanAndDel(s, ok, pattern) ==
    LET l == Logged(s, "scanKeys+del", pattern, ok)
        keys == scanKeys(l, ok, pattern)
    IN IF keys # {} THEN del(l, ok, keys) ELSE l

\* async cacheReports(key, reports, ttl)
cacheReports(s, ok, key, ttl) == set(s, ok, <<"reports">> \o key, ttl)

\* async getCachedReports(key)
getCachedReports(s, ok, key) == get(s, ok, <<"reports">> \o key)

\* invalidateAdminReports with the pattern written without the prefix that
\* cacheReports adds
invalidateAdminReports_unprefixed(s, ok) ==
    LET pattern == <<"admin_reports", "*">>
        l == Logged(s, "invalidateAdminReports", pattern, ok)
        keys == scanKeys(l, ok, pattern)
    IN IF keys # {} THEN del(l, ok, keys) ELSE l

\* async invalidateAdminReports(adminId = null)
invalidateAdminReports(s, ok) ==
    LET pattern == <<"reports", "admin_reports", "*">>
        l == Logged(s, "invalidateAdminReports", pattern, ok)
        keys == scanKeys(l, ok, pattern)
    IN IF keys # {} THEN del(l, ok, keys) ELSE l

-----------------------------------------------------------------------------
(* The handler's local state and the transaction wrapper *)

Local ==
    [reports |-> reports, users |-> users, social_posts |-> social_posts,
     social_votes |-> social_votes, social_views |-> social_views,
     admins |-> admins, cache |-> cache, log |-> <<>>, tx |-> "none"]

\* client.query('BEGIN')
BEGIN(s) == [s EXCEPT !.tx = "open"]

\* a callback ends by returning (thrown = NoError) or by throwing
Return(s) == [s |-> s, thrown |-> NoError]
Throw(s, message) == [s |-> s, thrown |-> message]

\* transaction(callback): cb is the outcome of callback(client) run on
\* BEGIN(s0).  COMMIT keeps the callback's writes; ROLLBACK restores the
\* tables of s0.  What the callback did outside the database (cache
\* commands, notifications) is not undone.
transaction(s0, cb) ==
    IF cb.thrown = NoError
    THEN [s |-> [cb.s EXCEPT !.tx = "committed"], thrown |-> NoError]
    ELSE [s |-> [cb.s EXCEPT !.reports = s0.reports,
                             !.users = s0.users,
                             !.social_posts = s0.social_posts,
                             !.social_votes = s0.social_votes,
                             !.social_views = s0.social_views,
                             !.admins = s0.admins,
                             !.tx = "rolledback"],
          thrown |-> cb.thrown]

\* res.status(status).json(...): the handler's writes become the state
Respond(h, args, s, status) ==
    /\ reports' = s.reports
    /\ users' = s.users
    /\ social_posts' = s.social_posts
    /\ social_votes' = s.social_votes
    /\ social_views' = s.social_views
    /\ admins' = s.admins
    /\ cache' = s.cache
    /\ res' = [h |-> h, args |-> args, status |-> status,
               pre |-> DOMAIN cache, log |-> s.log, tx |-> s.tx]
    /\ UNCHANGED <<redis, kq>>

Idle == res = NoRes

-----------------------------------------------------------------------------
(* Cache keys of the report read paths *)

\* const { limit = 50 } = req.query
Default(v, d) == IF v = Undefined THEN d ELSE v

\* the key built from the raw parameters, without `|| 'all'`
getUserReports_cacheKey_raw(userId, isResolved, category, priority, limit, offset) ==
    <<"user_reports", Str(userId), Str(isResolved), Str(category), Str(priority),
      Str(limit), Str(offset)>>

getUserReports_cacheKey(userId, isResolved, category, priority, limit, offset) ==
    <<"user_reports", Str(userId), OrElse(isResolved, "all"),
      OrElse(category, "all"), OrElse(priority, "all"), Str(limit), Str(offset)>>

getNearbyReports_cacheKey(roundedLat, roundedLng, radius, limit, offset, currentUserId) ==
    <<"nearby_reports", roundedLat, roundedLng, Str(radius), Str(limit),
      Str(offset), Str(currentUserId)>>

getAdminReports_cacheKey(adminId, adminRole, adminDepartment, isResolved, category, priority, department, status, limit, offset) ==
    <<"admin_reports", adminId, adminRole, OrElse(adminDepartment, "none"),
      OrElse(isResolved, "all"), OrElse(category, "all"), OrElse(priority, "all"),
      OrElse(department, "all"), OrElse(status, "all"), Str(limit), Str(offset)>>

\* the key without the caller's segment
getSocialPosts_cacheKey_shared(tab, limit, offset, requestingUserId, latitude, longitude, radius, category, priority) ==
    <<"social_posts", Str(tab), Str(limit), Str(offset), OrElse(latitude, "none"),
      OrElse(longitude, "none"), Str(radius), OrElse(category, "all"),
      OrElse(priority, "all")>>

getSocialPosts_cacheKey(tab, limit, offset, requestingUserId, latitude, longitude, radius, category, priority) ==
    <<"social_posts", Str(tab), Str(limit), Str(offset),
      OrElse(requestingUserId, "guest"), OrElse(latitude, "none"),
      OrElse(longitude, "none"), Str(radius), OrElse(category, "all"),
      OrElse(priority, "all")>>

getPostComments_cacheKey(postId, page, limit, validSortBy, validSortOrder) ==
    <<"social_comments", postId, Str(page), Str(limit), validSortBy, validSortOrder>>

-----------------------------------------------------------------------------
(* Priority scorer *)

highSeverityCategories ==
    {"Public Safety & Emergency", "Water Supply & Sewerage", "Traffic & Transport",
     "Municipal Urban Planning & Encroachment Removal"}

mediumSeverityCategories ==
    {"Street Lighting & Electrical", "Roads & Infrastructure", "Public Health & Hygiene"}

\* the rows the nearby query counts: unresolved, created within the last
\* 30 days (days_old is the age of a row in days), at a stored location
\* within radiusMeters of (latitude, longitude).  Two different locations
\* are more than radiusMeters apart; a row without coordinates is never
\* within the radius, and no stored location is within the radius of (0, 0).
nearbyCount(s, location) ==
    Cardinality({r \in DOMAIN s.reports :
                    /\ ~s.reports[r].is_resolved
                    /\ s.reports[r].days_old <= 30
                    /\ s.reports[r].location # NoLoc
                    /\ s.reports[r].location = location})

\* the tiers with their boundaries exclusive
computedPriority_exclusive(score) ==
    IF score > 15 THEN "critical"
    ELSE IF score > 8 THEN "high"
    ELSE IF score > 3 THEN "medium"
    ELSE "low"

\* score to tier
computedPriority(score) ==
    IF score >= 15 THEN "critical"
    ELSE IF score >= 8 THEN "high"
    ELSE IF score >= 3 THEN "medium"
    ELSE "low"

\* computeAutoPriority(client, ...): the count query runs on the client of
\* the open transaction.  okCount = FALSE is the query failing: the catch
\* returns 'medium', and the database has put the transaction in the
\* aborted state, in which it refuses every statement until ROLLBACK.
computeAutoPriority(s, location, category, okCount) ==
    LET severityWeight == IF category \in highSeverityCategories THEN 3
                          ELSE IF category \in mediumSeverityCategories THEN 2
                          ELSE 1
        score == nearbyCount(s, location) * severityWeight
    IN IF okCount
       THEN [s |-> s, priority |-> computedPriority(score)]
       ELSE [s |-> [s EXCEPT !.tx = "aborted"], priority |-> "medium"]

-----------------------------------------------------------------------------
(* Report controllers *)

\* inputs of the requests
UserIdInputs == Users \cup {"u9", Undefined}
PriorityInputs == {Undefined, "auto"}
CategoryInputs == {Undefined}
LocationInputs == Locations \cup {NoLoc}
UpdatePriorityInputs == {Undefined, "high"}

UserReportsTTL == 300
NearbyReportsTTL == 180
AdminReportsTTL == 600
SocialPostsTTL == 300
SocialCommentsTTL == 600

\* the callback scoring after the insertion, so that the count includes the
\* new row
createReport_callback_insertFirst(s, id, actualUserId, priority, category, location, okCount) ==
    IF actualUserId \notin DOMAIN s.users
    THEN Throw(s, "User not found")
    ELSE
      LET requested == OrElse(priority, "auto")
          row == [user_id |-> actualUserId,
                  category |-> OrElse(category, "other"),
                  priority |-> requested,
                  location |-> location,
                  is_resolved |-> FALSE,
                  days_old |-> 0,
                  status |-> "submitted",
                  assigned_admin_id |-> NoAdmin]
          inserted == [s EXCEPT !.reports = [r \in DOMAIN s.reports \cup {id} |->
                                                IF r = id THEN row ELSE s.reports[r]],
                                !.users[actualUserId].total_reports = @ + 1]
          scored == IF requested = "auto"
                    THEN computeAutoPriority(inserted, location, OrElse(category, ""),
                                             okCount)
                    ELSE [s |-> inserted, priority |-> requested]
      IN IF scored.s.tx = "aborted"
         THEN Throw(scored.s, "current transaction is aborted")
         ELSE Return([inserted EXCEPT !.reports[id].priority = scored.priority])

\* the callback scoring only on the explicit value 'auto'
createReport_callback_explicitOnly(s, id, actualUserId, priority, category, location, okCount) ==
    IF actualUserId \notin DOMAIN s.users
    THEN Throw(s, "User not found")
    ELSE
      LET scored == IF priority = "auto"
                    THEN computeAutoPriority(s, location, OrElse(category, ""), okCount)
                    ELSE [s |-> s, priority |-> priority]
          row == [user_id |-> actualUserId,
                  category |-> OrElse(category, "other"),
                  priority |-> scored.priority,
                  location |-> location,
                  is_resolved |-> FALSE,
                  days_old |-> 0,
                  status |-> "submitted",
                  assigned_admin_id |-> NoAdmin]
          inserted == [r \in DOMAIN s.reports \cup {id} |->
                          IF r = id THEN row ELSE s.reports[r]]
      IN IF scored.s.tx = "aborted"
         THEN Throw(scored.s, "current transaction is aborted")
         ELSE Return([s EXCEPT !.reports = inserted,
                               !.users[actualUserId].total_reports = @ + 1])

\* the callback of createReport's transaction
createReport_callback(s, id, actualUserId, priority, category, location, okCount) ==
    IF actualUserId \notin DOMAIN s.users
    THEN Throw(s, "User not found")
    ELSE
      LET requested == OrElse(priority, "auto")
          scored == IF requested = "auto"
                    THEN computeAutoPriority(s, location, OrElse(category, ""), okCount)
                    ELSE [s |-> s, priority |-> requested]
          row == [user_id |-> actualUserId,
                  category |-> OrElse(category, "other"),
                  priority |-> scored.priority,
                  location |-> location,
                  is_resolved |-> FALSE,
                  days_old |-> 0,
                  status |-> "submitted",
                  assigned_admin_id |-> NoAdmin]
          inserted == [r \in DOMAIN s.reports \cup {id} |->
                          IF r = id THEN row ELSE s.reports[r]]
      IN IF scored.s.tx = "aborted"
         THEN Throw(scored.s, "current transaction is aborted")
         ELSE Return([s EXCEPT !.reports = inserted,
                               !.users[actualUserId].total_reports = @ + 1])

NewPost(userId) ==
    [user_id |-> userId, upvotes |-> 0, downvotes |-> 0, total_score |-> 0,
     comment_count |-> 0, view_count |-> 0]

\* the auto-created social post: a query outside the transaction whose
\* failure is caught
createReport_socialPost(s, id, actualUserId, inserted) ==
    IF inserted
    THEN [s EXCEPT !.social_posts =
            [r \in DOMAIN s.social_posts \cup {id} |->
                IF r = id THEN NewPost(actualUserId) ELSE s.social_posts[r]]]
    ELSE s

\* "Invalidate relevant caches after creating a new report"
createReport_invalidation(s, id, actualUserId, oks) ==
    LET a == invalidateAdminReports(s, oks[1])
        b == invalidatePattern(a, oks[2], <<"social_posts", "*">>)
        c == scanAndDel(b, oks[3], <<"reports", "user_reports", actualUserId, "*">>)
    IN IF s.reports[id].location # NoLoc
       THEN scanAndDel(c, oks[4],
              <<"reports", "nearby_reports", "*", "*", "*", "*", "*", actualUserId>>)
       ELSE c

\* id is the id the database gives the new row
createReport(id, userId, priority, category, location, okCount, inserted, oks) ==
    /\ Idle
    /\ id \notin DOMAIN reports
    /\ LET args == <<userId, id, priority, category, location,
                     IF okCount THEN "ok" ELSE "failed">>
       IN
        IF ~Truthy(userId)
        THEN Respond("createReport", args, Local, 400)
        ELSE
          LET t == transaction(Local,
                     createReport_callback(BEGIN(Local), id, userId, priority,
                                           category, location, okCount))
          IN IF t.thrown = "User not found"
             THEN Respond("createReport", args, t.s, 404)
             ELSE IF t.thrown # NoError
             THEN Respond("createReport", args, t.s, 500)
             ELSE Respond("createReport", args,
                    createReport_invalidation(
                        createReport_socialPost(t.s, id, userId, inserted),
                        id, userId, oks),
                    201)

\* the callback of updateReport's transaction
updateReport_callback(s, reportId, userId, priority) ==
    IF reportId \notin DOMAIN s.reports
       \/ (Truthy(userId) /\ s.reports[reportId].user_id # userId)
    THEN Throw(s, "Report not found or access denied")
    ELSE IF s.reports[reportId].is_resolved
    THEN Throw(s, "Cannot update a resolved report")
    ELSE IF priority = Undefined
    THEN Throw(s, "No fields to update")
    ELSE Return([s EXCEPT !.reports[reportId].priority = priority])

\* the invalidation run so that its failure undoes the update
updateReport_invalidation_undoing(s, ok) ==
    LET l == invalidateAdminReports(s, ok)
    IN IF isAvailable /\ ~ok
       THEN [l EXCEPT !.reports = reports, !.users = users]
       ELSE l

\* "Invalidate admin report caches since report was updated"
updateReport_invalidation(s, ok) == invalidateAdminReports(s, ok)

updateReport(reportId, userId, priority, ok) ==
    /\ Idle
    /\ LET t == transaction(Local,
                  updateReport_callback(BEGIN(Local), reportId, userId, priority))
           args == <<reportId, userId, priority>>
       IN IF t.thrown = "Report not found or access denied"
          THEN Respond("updateReport", args, t.s, 404)
          ELSE IF t.thrown \in {"Cannot update a resolved report", "No fields to update"}
          THEN Respond("updateReport", args, t.s, 400)
          ELSE Respond("updateReport", args, updateReport_invalidation(t.s, ok), 200)

\* await sendReportResolvedNotification(...), inside try/catch
sendReportResolvedNotification(s, reportId) == Logged(s, "notify", <<reportId>>, TRUE)

\* "Invalidate Redis cache for this report", inside the callback
resolveReport_invalidation(s, reportId, oks) ==
    LET a == delete(s, oks[1], <<"report", reportId>>)
        b == deletePattern(a, oks[2], <<"reports", "*">>)
        c == deletePattern(b, oks[3], <<"nearby", "*">>)
        d == deletePattern(c, oks[4], <<"user_reports", "*">>)
    IN deletePattern(d, oks[5], <<"social_posts", "*">>)

\* the callback of resolveReport's transaction
resolveReport_callback(s, reportId, adminId, adminRole, oks) ==
    IF adminId \notin DOMAIN s.admins \/ ~s.admins[adminId].is_active
    THEN Throw(s, "Admin not found or inactive")
    ELSE IF s.admins[adminId].role # adminRole
    THEN Throw(s, "Admin role mismatch")
    ELSE IF reportId \notin DOMAIN s.reports
    THEN Throw(s, "Report not found")
    ELSE IF s.reports[reportId].is_resolved
    THEN Throw(s, "Report is already resolved")
    ELSE
      LET owner == s.reports[reportId].user_id
          resolved == [s EXCEPT !.reports[reportId].is_resolved = TRUE,
                                !.users[owner].resolved_reports = @ + 1]
      IN Return(resolveReport_invalidation(
                    sendReportResolvedNotification(resolved, reportId),
                    reportId, oks))

validRoles == {"viewer", "admin", "super_admin"}

resolveReport(reportId, adminId, adminRole, oks) ==
    /\ Idle
    /\ LET args == <<reportId, adminId, adminRole>> IN
       IF ~Truthy(adminId) \/ ~Truthy(adminRole)
       THEN Respond("resolveReport", args, Local, 400)
       ELSE IF adminRole \notin validRoles
       THEN Respond("resolveReport", args, Local, 403)
       ELSE
         LET t == transaction(Local,
                    resolveReport_callback(BEGIN(Local), reportId, adminId,
                                           adminRole, oks))
         IN IF t.thrown \in {"Admin not found or inactive", "Admin role mismatch"}
            THEN Respond("resolveReport", args, t.s, 403)
            ELSE IF t.thrown = "Report not found"
            THEN Respond("resolveReport", args, t.s, 404)
            ELSE IF t.thrown = "Report is already resolved"
            THEN Respond("resolveReport", args, t.s, 400)
            ELSE Respond("resolveReport", args,
                         invalidateAdminReports(t.s, oks[6]), 200)

\* DELETE FROM reports WHERE id = $1; the report's social post, votes and
\* views go with it
DeleteRow(s, reportId) ==
    [s EXCEPT !.reports = [r \in DOMAIN s.reports \ {reportId} |-> s.reports[r]],
              !.social_posts = [r \in DOMAIN s.social_posts \ {reportId} |->
                                    s.social_posts[r]],
              !.social_votes = [pu \in {x \in DOMAIN s.social_votes : x[1] # reportId} |->
                                    s.social_votes[pu]],
              !.social_views = {x \in s.social_views : x[1] # reportId}]

Max(a, b) == IF a >= b THEN a ELSE b

\* the callback of deleteReport's transaction
deleteReport_callback(s, reportId, userId) ==
    IF reportId \notin DOMAIN s.reports
    THEN Throw(s, "Report not found")
    ELSE
      LET report == s.reports[reportId] IN
      IF Truthy(userId) /\ report.user_id # userId
      THEN Throw(s, "Access denied: You can only delete your own reports")
      ELSE Return([DeleteRow(s, reportId) EXCEPT
                     !.users[report.user_id].total_reports = Max(@ - 1, 0),
                     !.users[report.user_id].resolved_reports =
                         IF report.is_resolved THEN Max(@ - 1, 0) ELSE @])

\* "Invalidate admin report caches since report was deleted"
deleteReport_invalidation(s, ok) == invalidateAdminReports(s, ok)

deleteReport(reportId, userId, ok) ==
    /\ Idle
    /\ LET t == transaction(Local, deleteReport_callback(BEGIN(Local), reportId, userId))
           args == <<reportId, userId>>
       IN IF t.thrown = "Report not found"
          THEN Respond("deleteReport", args, t.s, 404)
          ELSE IF t.thrown # NoError
          THEN Respond("deleteReport", args, t.s, 403)
          ELSE Respond("deleteReport", args, deleteReport_invalidation(t.s, ok), 200)

\* assignReport issues no cache command
assignReport_invalidation(s) == s

assignReport(reportId, assignedAdminId) ==
    /\ Idle
    /\ LET args == <<reportId, assignedAdminId>> IN
       IF ~Truthy(assignedAdminId)
       THEN Respond("assignReport", args, Local, 400)
       ELSE IF assignedAdminId \notin DOMAIN admins
       THEN Respond("assignReport", args, Local, 404)
       ELSE IF ~admins[assignedAdminId].is_active
       THEN Respond("assignReport", args, Local, 400)
       ELSE IF reportId \notin DOMAIN reports
       THEN Respond("assignReport", args, Local, 404)
       ELSE IF reports[reportId].is_resolved
       THEN Respond("assignReport", args, Local, 400)
       ELSE Respond("assignReport", args,
              assignReport_invalidation(
                [Local EXCEPT !.reports[reportId].assigned_admin_id = assignedAdminId,
                              !.reports[reportId].status = "pending"]),
              200)

\* the callback of completeReport's transaction (field admin)
completeReport_callback(s, reportId, adminId) ==
    IF reportId \notin DOMAIN s.reports
       \/ s.reports[reportId].assigned_admin_id # adminId
    THEN Throw(s, "Report not found or not assigned to this admin")
    ELSE Return([s EXCEPT !.reports[reportId].status = "resolved",
                          !.reports[reportId].is_resolved = TRUE])

\* completeReport issues no cache command
completeReport_invalidation(s) == s

completeReport(reportId, adminId) ==
    /\ Idle
    /\ LET t == transaction(Local, completeReport_callback(BEGIN(Local), reportId, adminId))
           args == <<reportId, adminId>>
       IN IF t.thrown # NoError
          THEN Respond("completeReport", args, t.s, 500)
          ELSE Respond("completeReport", args, completeReport_invalidation(t.s), 200)

-----------------------------------------------------------------------------
(* Cached read paths of the report controllers *)

\* coordinates are held in units of 0.0001 degree
Coord(location) == IF location = "A" THEN <<233441, 853096>> ELSE <<0, 0>>

\* parseFloat(x).toFixed(3)
toFixed3(x) == ToString((x + 5) \div 10)

getUserReports(userId, okGet, okSet) ==
    /\ Idle
    /\ LET cacheKey == getUserReports_cacheKey(userId, Undefined, Undefined, Undefined,
                                               Default(Undefined, "50"),
                                               Default(Undefined, "0"))
       IN IF getCachedReports(Local, okGet, cacheKey)
          THEN Respond("getUserReports", <<userId, "cached">>, Local, 200)
          ELSE Respond("getUserReports", <<userId, "fresh">>,
                       cacheReports(Local, okSet, cacheKey, UserReportsTTL), 200)

getNearbyReports(location, userId, okGet, okSet) ==
    /\ Idle
    /\ LET cacheKey == getNearbyReports_cacheKey(toFixed3(Coord(location)[1]),
                                                 toFixed3(Coord(location)[2]),
                                                 Default(Undefined, "10"),
                                                 Default(Undefined, "20"),
                                                 Default(Undefined, "0"), userId)
       IN IF getCachedReports(Local, okGet, cacheKey)
          THEN Respond("getNearbyReports", <<userId, "cached">>, Local, 200)
          ELSE Respond("getNearbyReports", <<userId, "fresh">>,
                       cacheReports(Local, okSet, cacheKey, NearbyReportsTTL), 200)

getAdminReports(adminId, okGet, okSet) ==
    /\ Idle
    /\ IF adminId \notin DOMAIN admins \/ ~admins[adminId].is_active
       THEN Respond("getAdminReports", <<adminId, "none">>, Local, 404)
       ELSE
         LET adminRole == admins[adminId].role
             adminDepartment == admins[adminId].department
             cacheKey == getAdminReports_cacheKey(adminId, adminRole, adminDepartment,
                             Undefined, Undefined, Undefined, Undefined, Undefined,
                             Default(Undefined, "50"), Default(Undefined, "0"))
         IN IF getCachedReports(Local, okGet, cacheKey)
            THEN Respond("getAdminReports", <<adminId, "cached">>, Local, 200)
            ELSE IF adminRole = "viewer" /\ ~Truthy(adminDepartment)
            THEN Respond("getAdminReports", <<adminId, "none">>, Local, 400)
            ELSE Respond("getAdminReports", <<adminId, "fresh">>,
                         cacheReports(Local, okSet, cacheKey, AdminReportsTTL), 200)

getSocialPosts(requestingUserId, okGet, okSet) ==
    /\ Idle
    /\ LET cacheKey == getSocialPosts_cacheKey(Default(Undefined, "all"),
                           Default(Undefined, "20"), Default(Undefined, "0"),
                           requestingUserId, Undefined, Undefined,
                           Default(Undefined, "10"), Undefined, Undefined)
       IN IF getCachedReports(Local, okGet, cacheKey)
          THEN Respond("getSocialPosts", <<requestingUserId, "cached">>, Local, 200)
          \* the SELECT list names sv.vote_type, but social_votes sv is
          \* joined only for an identified caller: the guest query fails
          ELSE IF ~Truthy(requestingUserId)
          THEN Respond("getSocialPosts", <<requestingUserId, "none">>, Local, 500)
          ELSE Respond("getSocialPosts", <<requestingUserId, "fresh">>,
                       cacheReports(Local, okSet, cacheKey, SocialPostsTTL), 200)

-----------------------------------------------------------------------------
(* The environment: the client takes the response; the Redis connection    *)
(* comes and goes ('ready', 'error' and 'end' events); a key's TTL elapses *)

Deliver ==
    /\ res # NoRes
    /\ res' = NoRes
    /\ UNCHANGED <<dbvars, cache, redis, kq>>

RedisReady ==
    /\ Idle /\ ~redis
    /\ redis' = TRUE
    /\ UNCHANGED <<dbvars, cache, res, kq>>

RedisEnd ==
    /\ Idle /\ redis
    /\ redis' = FALSE
    /\ UNCHANGED <<dbvars, cache, res, kq>>

Expire ==
    /\ Idle
    /\ \E k \in DOMAIN cache : cache' = Without(cache, {k})
    /\ UNCHANGED <<dbvars, redis, res, kq>>

Environment == Deliver \/ RedisReady \/ RedisEnd \/ Expire

-----------------------------------------------------------------------------
(* Specification of the report controllers *)

NoKq == <<>>

EmptyTable == [x \in {} |-> x]

InitTables ==
    /\ reports = EmptyTable
    /\ users = [u \in Users |-> [total_reports |-> 0, resolved_reports |-> 0]]
    /\ social_posts = EmptyTable
    /\ social_votes = EmptyTable
    /\ social_views = {}
    /\ cache = EmptyTable
    /\ redis = FALSE
    /\ res = NoRes
    /\ kq = NoKq

InitReports ==
    /\ InitTables
    /\ admins = [a \in {"a1"} |->
                    [role |-> "admin", department |-> "Roads", is_active |-> TRUE]]

\* outcomes of the n cache commands of one request: all succeed, one of them
\* errors, or all of them error
Oks(n) == {f \in [1..n -> BOOLEAN] : Cardinality({i \in 1..n : ~f[i]}) \in {0, 1, n}}

CreateReport ==
    \E id \in ReportIds, userId \in UserIdInputs, priority \in PriorityInputs,
       category \in CategoryInputs, location \in LocationInputs, okCount \in BOOLEAN,
       inserted \in BOOLEAN, oks \in Oks(4) :
        createReport(id, userId, priority, category, location, okCount, inserted, oks)

UpdateReport ==
    \E reportId \in ReportIds, userId \in Users \cup {Undefined},
       priority \in UpdatePriorityInputs, ok \in BOOLEAN :
        updateReport(reportId, userId, priority, ok)

ResolveReport ==
    \E reportId \in ReportIds, adminId \in Admins \cup {Undefined},
       adminRole \in {"admin", "viewer", "root"}, oks \in Oks(6) :
        resolveReport(reportId, adminId, adminRole, oks)

DeleteReport ==
    \E reportId \in ReportIds, userId \in Users \cup {Undefined}, ok \in BOOLEAN :
        deleteReport(reportId, userId, ok)

AssignReport ==
    \E reportId \in ReportIds, assignedAdminId \in Admins \cup {Undefined} :
        assignReport(reportId, assignedAdminId)

CompleteReport ==
    \E reportId \in ReportIds, adminId \in Admins : completeReport(reportId, adminId)

GetUserReports ==
    \E userId \in Users, okGet \in BOOLEAN, okSet \in BOOLEAN :
        getUserReports(userId, okGet, okSet)

GetNearbyReports ==
    \E location \in Locations, userId \in Users, okGet \in BOOLEAN, okSet \in BOOLEAN :
        getNearbyReports(location, userId, okGet, okSet)

GetAdminReports ==
    \E adminId \in Admins, okGet \in BOOLEAN, okSet \in BOOLEAN :
        getAdminReports(adminId, okGet, okSet)

GetSocialPosts ==
    \E okGet \in BOOLEAN, okSet \in BOOLEAN : getSocialPosts("u1", okGet, okSet)

NextReports ==
    \/ CreateReport
    \/ UpdateReport
    \/ ResolveReport
    \/ DeleteReport
    \/ AssignReport
    \/ CompleteReport
    \/ GetUserReports
    \/ GetNearbyReports
    \/ GetAdminReports
    \/ GetSocialPosts
    \/ Deliver
    \/ RedisReady
    \/ RedisEnd
    \/ Expire

SpecReports == InitReports /\ [][NextReports]_vars

-----------------------------------------------------------------------------
(* Properties of the report controllers (checked under SpecReports) *)

Succeeded == res.status \in {200, 201}

\* the entries cached before the request that are still cached after it
Remaining == res.pre \cap DOMAIN cache

\* every cache command of the request was carried out by a connected Redis
CacheHealthy == redis /\ \A i \in DOMAIN res.log : res.log[i].ok

\* the keys under which cacheReports stores the list of a namespace
IsList(k, namespace) == Len(k) > 2 /\ k[1] = "reports" /\ k[2] = namespace

DeletionOps ==
    {"delete", "deletePattern", "invalidatePattern", "scanKeys+del",
     "invalidateAdminReports"}

MutatingHandlers ==
    {"createReport", "updateReport", "resolveReport", "deleteReport",
     "createSocialPost", "voteOnPost", "addComment", "trackPostView",
     "createAdmin", "updateAdmin", "deleteAdmin", "restoreAdmin"}

\* C1: every cache deletion a mutating handler carries out is issued after
\* its transaction has committed, never while the transaction is open.
C1_DeletionsAfterCommit ==
    res.h \in MutatingHandlers =>
        \A i \in DOMAIN res.log :
            (res.log[i].op \in DeletionOps /\ res.log[i].ok)
                => res.log[i].tx = "committed"

\* C2: once a report has been resolved (resolveReport or completeReport),
\* with the cache reachable and no command failing, no detail entry of the
\* report and no report list or social-post list cached before remains.
C2_ResolutionPurgesLists ==
    (res.h \in {"resolveReport", "completeReport"} /\ res.status = 200 /\ CacheHealthy) =>
        \A k \in Remaining :
            /\ k # <<"report", res.args[1]>>
            /\ ~IsList(k, "user_reports")
            /\ ~IsList(k, "nearby_reports")
            /\ ~IsList(k, "admin_reports")
            /\ ~IsList(k, "social_posts")

\* the nearby lists whose area contains the location of report id
NearbyListOf(k, id) ==
    /\ IsList(k, "nearby_reports")
    /\ reports[id].location # NoLoc
    /\ k[3] = toFixed3(Coord(reports[id].location)[1])
    /\ k[4] = toFixed3(Coord(reports[id].location)[2])

\* C3: after createReport succeeds (cache reachable, no command failing),
\* no entry cached before remains for a reports list of the owner, for a
\* nearby list around the new report's location, or for a social_posts list.
C3_CreateReportPurgesLists ==
    (res.h = "createReport" /\ res.status = 201 /\ CacheHealthy) =>
        \A k \in Remaining :
            /\ ~(IsList(k, "user_reports") /\ k[3] = res.args[1])
            /\ ~NearbyListOf(k, res.args[2])
            /\ ~IsList(k, "social_posts")

\* C5: after assignReport succeeds (cache reachable), no admin report list
\* entry cached before the assignment remains.
C5_AssignReportPurgesAdminLists ==
    (res.h = "assignReport" /\ res.status = 200 /\ CacheHealthy) =>
        \A k \in Remaining : ~IsList(k, "admin_reports")

DataCommitted ==
    /\ res.h = "createReport" =>
          res.args[2] \in DOMAIN reports /\ reports[res.args[2]].user_id = res.args[1]
    /\ res.h = "updateReport" =>
          res.args[1] \in DOMAIN reports /\ reports[res.args[1]].priority = res.args[3]
    /\ res.h = "resolveReport" =>
          res.args[1] \in DOMAIN reports /\ reports[res.args[1]].is_resolved
    /\ res.h = "deleteReport" => res.args[1] \notin DOMAIN reports

InvalidationFailed ==
    \E i \in DOMAIN res.log : res.log[i].op \in DeletionOps /\ ~res.log[i].ok

\* C8: when a cache invalidation step of a mutation fails, the mutation is
\* still committed, its change is in the tables, and the request succeeds.
C8_FailedInvalidationKeepsCommit ==
    (res.h \in {"createReport", "updateReport", "resolveReport", "deleteReport"}
        /\ InvalidationFailed)
      => (res.tx = "committed" /\ Succeeded /\ DataCommitted)

C8_Witness ==
    /\ res.h = "updateReport" /\ redis /\ res.pre # {}
    /\ \E i \in DOMAIN res.log : res.log[i].tx = "committed" /\ ~res.log[i].ok
    /\ DataCommitted

ReadHandlers == {"getUserReports", "getNearbyReports", "getAdminReports", "getSocialPosts"}

\* what a request handled while Redis is not connected must look like
C9_Degraded ==
    (~redis /\ res = NoRes /\ res' # NoRes) =>
        /\ cache' = cache
        /\ res'.h \in ReadHandlers => res'.args[2] # "cached"
        /\ res'.h \in ReadHandlers => (res'.status = 200 \/ res'.args[2] = "none")
        /\ res'.tx = "committed" => res'.status \in {200, 201}

\* C9: while Redis is not connected every cache read misses, no cache write
\* or deletion changes the cache, and every handler completes against the
\* store: reads answer 200 with fresh rows, committed writes answer 2xx.
C9_UnavailableCacheDegrades == [][C9_Degraded]_vars

C9_Witness ==
    /\ ~redis /\ res.pre # {}
    /\ res.h = "getUserReports" /\ res.status = 200 /\ res.args[2] = "fresh"
    /\ <<"reports">> \o getUserReports_cacheKey(res.args[1], Undefined, Undefined,
                            Undefined, "50", "0") \in DOMAIN cache

-----------------------------------------------------------------------------
(* Social controllers.  A post is identified by the report it belongs to. *)

PostIdInputs == ReportIds \cup {"p9"}
VoteTypeInputs == {"upvote", "downvote", "like"}
ContentInputs == {"", "ok"}

\* the counters of a post are followed up to these values
MaxComments == 2
MaxViews == 2

\* the callback of createSocialPost's transaction
createSocialPost_callback(s, reportId, userId) ==
    IF reportId \notin DOMAIN s.reports \/ s.reports[reportId].user_id # userId
    THEN Throw(s, "Report not found or access denied")
    ELSE IF reportId \in DOMAIN s.social_posts
    THEN Throw(s, "Social post already exists for this report")
    ELSE Return([s EXCEPT !.social_posts =
                    [r \in DOMAIN s.social_posts \cup {reportId} |->
                        IF r = reportId THEN NewPost(userId) ELSE s.social_posts[r]]])

\* "Invalidate cache"
createSocialPost_invalidation(s, ok) == invalidatePattern(s, ok, <<"social_posts", "*">>)

createSocialPost(reportId, userId, ok) ==
    /\ Idle
    /\ LET args == <<reportId, userId>> IN
       IF ~Truthy(reportId)
       THEN Respond("createSocialPost", args, Local, 400)
       ELSE IF ~Truthy(userId)
       THEN Respond("createSocialPost", args, Local, 401)
       ELSE
         LET t == transaction(Local,
                    createSocialPost_callback(BEGIN(Local), reportId, userId))
         IN IF t.thrown = "Report not found or access denied"
            THEN Respond("createSocialPost", args, t.s, 404)
            ELSE IF t.thrown = "Social post already exists for this report"
            THEN Respond("createSocialPost", args, t.s, 400)
            ELSE Respond("createSocialPost", args,
                         createSocialPost_invalidation(t.s, ok), 201)

\* the callback of voteOnPost's transaction
voteOnPost_callback(s, postId, userId, voteType) ==
    IF postId \notin DOMAIN s.social_posts
    THEN Throw(s, "Post not found")
    ELSE
      LET pu == <<postId, userId>>
          existing == pu \in DOMAIN s.social_votes
          same == existing /\ s.social_votes[pu] = voteType
          up == voteType = "upvote"
          upvoteChange == IF same THEN (IF up THEN -1 ELSE 0)
                          ELSE IF existing THEN (IF up THEN 1 ELSE -1)
                          ELSE (IF up THEN 1 ELSE 0)
          downvoteChange == IF same THEN (IF up THEN 0 ELSE -1)
                            ELSE IF existing THEN (IF up THEN -1 ELSE 1)
                            ELSE (IF up THEN 0 ELSE 1)
          votes == IF same
                   THEN [x \in DOMAIN s.social_votes \ {pu} |-> s.social_votes[x]]
                   ELSE [x \in DOMAIN s.social_votes \cup {pu} |->
                            IF x = pu THEN voteType ELSE s.social_votes[x]]
          post == s.social_posts[postId]
      IN Return([s EXCEPT !.social_votes = votes,
                          !.social_posts[postId].upvotes = post.upvotes + upvoteChange,
                          !.social_posts[postId].downvotes = post.downvotes + downvoteChange,
                          !.social_posts[postId].total_score =
                              (post.upvotes + upvoteChange) - (post.downvotes + downvoteChange)])

\* "Invalidate cache"
voteOnPost_invalidation(s, ok) == invalidatePattern(s, ok, <<"social_posts", "*">>)

voteOnPost(postId, userId, voteType, ok) ==
    /\ Idle
    /\ LET args == <<postId, userId, voteType>> IN
       IF ~Truthy(userId)
       THEN Respond("voteOnPost", args, Local, 401)
       ELSE IF voteType \notin {"upvote", "downvote"}
       THEN Respond("voteOnPost", args, Local, 400)
       ELSE
         LET t == transaction(Local,
                    voteOnPost_callback(BEGIN(Local), postId, userId, voteType))
         IN IF t.thrown = "Post not found"
            THEN Respond("voteOnPost", args, t.s, 404)
            ELSE Respond("voteOnPost", args, voteOnPost_invalidation(t.s, ok), 200)

\* the callback of addComment's transaction (no parent comment)
addComment_callback(s, postId, userId) ==
    IF postId \notin DOMAIN s.social_posts
    THEN Throw(s, "Post not found")
    ELSE Return([s EXCEPT !.social_posts[postId].comment_count = @ + 1])

\* "Invalidate cache"
addComment_invalidation(s, oks) ==
    invalidatePattern(invalidatePattern(s, oks[1], <<"social_posts", "*">>),
                      oks[2], <<"social_comments", "*">>)

addComment(postId, userId, content, oks) ==
    /\ Idle
    /\ postId \in DOMAIN social_posts => social_posts[postId].comment_count < MaxComments
    /\ LET args == <<postId, userId>> IN
       IF ~Truthy(userId)
       THEN Respond("addComment", args, Local, 401)
       ELSE IF ~Truthy(content)
       THEN Respond("addComment", args, Local, 400)
       ELSE
         LET t == transaction(Local, addComment_callback(BEGIN(Local), postId, userId))
         IN IF t.thrown = "Post not found"
            THEN Respond("addComment", args, t.s, 404)
            ELSE Respond("addComment", args, addComment_invalidation(t.s, oks), 201)

\* the callback of trackPostView's transaction
trackPostView_callback(s, postId, userId) ==
    IF postId \notin DOMAIN s.social_posts
    THEN Throw(s, "Post not found")
    ELSE IF Truthy(userId) /\ <<postId, userId>> \in s.social_views
    THEN Return(s)
    ELSE Return([s EXCEPT !.social_views = @ \cup {<<postId, userId>>},
                          !.social_posts[postId].view_count = @ + 1])

\* "Invalidate cache"
trackPostView_invalidation(s, ok) == invalidatePattern(s, ok, <<"social_posts", "*">>)

trackPostView(postId, userId, ok) ==
    /\ Idle
    /\ postId \in DOMAIN social_posts => social_posts[postId].view_count < MaxViews
    /\ LET args == <<postId, userId>>
           t == transaction(Local, trackPostView_callback(BEGIN(Local), postId, userId))
       IN IF t.thrown = "Post not found"
          THEN Respond("trackPostView", args, t.s, 404)
          ELSE Respond("trackPostView", args, trackPostView_invalidation(t.s, ok), 200)

getPostComments(postId, okGet, okSet) ==
    /\ Idle
    /\ LET cacheKey == getPostComments_cacheKey(postId, Default(Undefined, "1"),
                           Default(Undefined, "20"), "created_at", "desc")
       IN IF getCachedReports(Local, okGet, cacheKey)
          THEN Respond("getPostComments", <<postId, "cached">>, Local, 200)
          ELSE Respond("getPostComments", <<postId, "fresh">>,
                       cacheReports(Local, okSet, cacheKey, SocialCommentsTTL), 200)

-----------------------------------------------------------------------------
(* Specification of the social controllers.  It starts with a report whose *)
(* auto-created post was not inserted (createReport catches that failure). *)

InitSocial ==
    /\ reports = [r \in ReportIds |->
                    [user_id |-> "u1", category |-> "other", priority |-> "low",
                     location |-> "A", is_resolved |-> FALSE, days_old |-> 0,
                     status |-> "submitted",
                     assigned_admin_id |-> NoAdmin]]
    /\ users = [u \in Users |->
                    [total_reports |-> IF u = "u1" THEN 1 ELSE 0, resolved_reports |-> 0]]
    /\ social_posts = EmptyTable
    /\ social_votes = EmptyTable
    /\ social_views = {}
    /\ admins = EmptyTable
    /\ cache = EmptyTable
    /\ redis = FALSE
    /\ res = NoRes
    /\ kq = NoKq

CreateSocialPost ==
    \E reportId \in ReportIds \cup {Undefined}, userId \in Users \cup {Undefined},
       ok \in BOOLEAN :
        createSocialPost(reportId, userId, ok)

VoteOnPost ==
    \E postId \in PostIdInputs, userId \in Users \cup {Undefined},
       voteType \in VoteTypeInputs, ok \in BOOLEAN :
        voteOnPost(postId, userId, voteType, ok)

AddComment ==
    \E postId \in PostIdInputs, userId \in {"u2", Undefined},
       content \in ContentInputs, oks \in Oks(2) :
        addComment(postId, userId, content, oks)

TrackPostView ==
    \E postId \in PostIdInputs, userId \in {"u2", Undefined}, ok \in BOOLEAN :
        trackPostView(postId, userId, ok)

GetSocialFeed ==
    \E requestingUserId \in {Undefined, "u2"}, okGet \in BOOLEAN, okSet \in BOOLEAN :
        getSocialPosts(requestingUserId, okGet, okSet)

GetPostComments ==
    \E postId \in ReportIds, okGet \in BOOLEAN, okSet \in BOOLEAN :
        getPostComments(postId, okGet, okSet)

NextSocial ==
    \/ CreateSocialPost
    \/ VoteOnPost
    \/ AddComment
    \/ TrackPostView
    \/ GetSocialFeed
    \/ GetPostComments
    \/ Deliver
    \/ RedisReady
    \/ RedisEnd
    \/ Expire

SpecSocial == InitSocial /\ [][NextSocial]_vars

SocialMutations == {"createSocialPost", "voteOnPost", "addComment", "trackPostView"}

\* C4: after createSocialPost, voteOnPost, addComment or trackPostView
\* succeeds (cache reachable, no command failing), no social_posts list
\* cached before remains, and after addComment no social_comments list of
\* the post remains: the patterns match the keys the read paths store.
C4_SocialMutationsPurgeLists ==
    (res.h \in SocialMutations /\ Succeeded /\ CacheHealthy) =>
        \A k \in Remaining :
            /\ ~IsList(k, "social_posts")
            /\ res.h = "addComment" =>
                  ~(IsList(k, "social_comments") /\ k[3] = res.args[1])

-----------------------------------------------------------------------------
(* Admin controllers.  An admin's id stands for its e-mail address too. *)

\* String.prototype.toLowerCase on the inputs of the model
toLowerCase(v) == IF v = "Super_Admin" THEN "super_admin" ELSE v

RequesterRoleInputs == {"Super_Admin", "admin", Undefined}
RoleInputs == {"admin", "super_admin", "boss"}

\* const DISABLE_ADMIN_CACHE = true
DISABLE_ADMIN_CACHE == TRUE

bypassCacheKey == <<"admins", "cache", "bypass">>
BypassTTL == 30
AdminsTTL == 600

getAllAdmins_cacheKey(requesterRole) == <<"admins", toLowerCase(requesterRole), "all">>

getAllAdmins(requesterRole, okGet, okSet) ==
    /\ Idle
    /\ LET args == <<Str(requesterRole)>> IN
       IF ~Truthy(requesterRole)
       THEN Respond("getAllAdmins", args \o <<"none">>, Local, 400)
       ELSE
         LET cacheKey == getAllAdmins_cacheKey(requesterRole)
             \* JSON.parse turns the stored 'true' into a boolean, which is
             \* never === 'true'
             shouldBypassCache == DISABLE_ADMIN_CACHE
         IN IF ~shouldBypassCache /\ getCachedReports(Local, okGet, cacheKey)
            THEN Respond("getAllAdmins", args \o <<"cached">>, Local, 200)
            ELSE IF ~DISABLE_ADMIN_CACHE
            THEN Respond("getAllAdmins", args \o <<"fresh">>,
                         cacheReports(Local, okSet, cacheKey, AdminsTTL), 200)
            ELSE Respond("getAllAdmins", args \o <<"fresh">>, Local, 200)

\* the callback of createAdmin's transaction
createAdmin_callback(s, email, department, role) ==
    IF email \in DOMAIN s.admins
    THEN IF s.admins[email].is_active
         THEN Throw(s, "Admin with this email already exists")
         ELSE Throw(s, "Admin with this email exists but is inactive")
    ELSE Return([s EXCEPT !.admins =
                    [a \in DOMAIN s.admins \cup {email} |->
                        IF a = email
                        THEN [role |-> toLowerCase(role), department |-> department,
                              is_active |-> TRUE]
                        ELSE s.admins[a]]])

\* "Invalidate admin cache after creating new admin"
createAdmin_invalidation(s, ok) == invalidatePattern(s, ok, <<"admins", "*">>)

createAdmin(requesterRole, email, role, ok) ==
    /\ Idle
    /\ LET args == <<Str(email)>> IN
       IF toLowerCase(requesterRole) # "super_admin"
       THEN Respond("createAdmin", args, Local, 403)
       ELSE IF ~Truthy(email) \/ ~Truthy(role)
       THEN Respond("createAdmin", args, Local, 400)
       ELSE IF toLowerCase(role) \notin validRoles
       THEN Respond("createAdmin", args, Local, 400)
       ELSE
         LET t == transaction(Local,
                    createAdmin_callback(BEGIN(Local), email, "Roads", role))
         IN IF t.thrown = "Admin with this email already exists"
            THEN Respond("createAdmin", args, t.s, 409)
            ELSE IF t.thrown # NoError
            THEN Respond("createAdmin", args, t.s, 500)
            ELSE Respond("createAdmin", args, createAdmin_invalidation(t.s, ok), 201)

\* the cache block shared by updateAdmin, deleteAdmin and restoreAdmin
adminCacheInvalidation(s, adminId, oks) ==
    LET a == set(s, oks[1], bypassCacheKey, BypassTTL)
        b == invalidatePattern(a, oks[2], <<"admins", "*">>)
        c == invalidatePattern(b, oks[3], <<"admin", "profile", adminId>>)
    IN invalidatePattern(c, oks[4], <<"admin", adminId, "*">>)

\* the callback of updateAdmin's transaction
updateAdmin_callback(s, adminId, role, isActive) ==
    IF adminId \notin DOMAIN s.admins
    THEN Throw(s, "Admin not found")
    ELSE
      LET a == IF role # Undefined
               THEN [s EXCEPT !.admins[adminId].role = toLowerCase(role)]
               ELSE s
      IN Return(IF isActive # Undefined
                THEN [a EXCEPT !.admins[adminId].is_active = (isActive = "true")]
                ELSE a)

updateAdmin_invalidation(s, adminId, oks) == adminCacheInvalidation(s, adminId, oks)

updateAdmin(adminId, requesterRole, role, isActive, oks) ==
    /\ Idle
    /\ LET args == <<Str(adminId)>> IN
       IF toLowerCase(requesterRole) # "super_admin"
       THEN Respond("updateAdmin", args, Local, 403)
       ELSE IF ~Truthy(adminId)
       THEN Respond("updateAdmin", args, Local, 400)
       ELSE IF Truthy(role) /\ toLowerCase(role) \notin validRoles
       THEN Respond("updateAdmin", args, Local, 400)
       ELSE
         LET t == transaction(Local,
                    updateAdmin_callback(BEGIN(Local), adminId, role, isActive))
         IN IF t.thrown = "Admin not found"
            THEN Respond("updateAdmin", args, t.s, 404)
            ELSE Respond("updateAdmin", args,
                         updateAdmin_invalidation(t.s, adminId, oks), 200)

\* the callback of deleteAdmin's transaction
deleteAdmin_callback(s, adminId) ==
    IF adminId \notin DOMAIN s.admins
    THEN Throw(s, "Admin not found")
    ELSE IF ~s.admins[adminId].is_active
    THEN Throw(s, "Admin is already inactive")
    ELSE IF toLowerCase(s.admins[adminId].role) = "super_admin"
            /\ {a \in DOMAIN s.admins \ {adminId} :
                   s.admins[a].role = "super_admin" /\ s.admins[a].is_active} = {}
    THEN Throw(s, "Cannot delete the last active super admin")
    ELSE Return([s EXCEPT !.admins[adminId].is_active = FALSE])

deleteAdmin_invalidation(s, adminId, oks) == adminCacheInvalidation(s, adminId, oks)

deleteAdmin(adminId, requesterRole, requesterId, oks) ==
    /\ Idle
    /\ LET args == <<Str(adminId)>> IN
       IF toLowerCase(requesterRole) # "super_admin"
       THEN Respond("deleteAdmin", args, Local, 403)
       ELSE IF ~Truthy(adminId)
       THEN Respond("deleteAdmin", args, Local, 400)
       ELSE IF adminId = requesterId
       THEN Respond("deleteAdmin", args, Local, 400)
       ELSE
         LET t == transaction(Local, deleteAdmin_callback(BEGIN(Local), adminId))
         IN IF t.thrown # NoError
            THEN Respond("deleteAdmin", args, t.s, 400)
            ELSE Respond("deleteAdmin", args,
                         deleteAdmin_invalidation(t.s, adminId, oks), 200)

\* the callback of restoreAdmin's transaction
restoreAdmin_callback(s, adminId) ==
    IF adminId \notin DOMAIN s.admins
    THEN Throw(s, "Admin not found")
    ELSE IF s.admins[adminId].is_active
    THEN Throw(s, "Admin is already active")
    ELSE Return([s EXCEPT !.admins[adminId].is_active = TRUE])

restoreAdmin_invalidation(s, adminId, oks) == adminCacheInvalidation(s, adminId, oks)

restoreAdmin(adminId, requesterRole, oks) ==
    /\ Idle
    /\ LET args == <<Str(adminId)>> IN
       IF toLowerCase(requesterRole) # "super_admin"
       THEN Respond("restoreAdmin", args, Local, 403)
       ELSE IF ~Truthy(adminId)
       THEN Respond("restoreAdmin", args, Local, 400)
       ELSE
         LET t == transaction(Local, restoreAdmin_callback(BEGIN(Local), adminId))
         IN IF t.thrown # NoError
            THEN Respond("restoreAdmin", args, t.s, 400)
            ELSE Respond("restoreAdmin", args,
                         restoreAdmin_invalidation(t.s, adminId, oks), 200)

-----------------------------------------------------------------------------
(* Specification of the admin controllers, seeded with one super admin *)

InitAdmins ==
    /\ InitTables
    /\ admins = [a \in {"a1"} |->
                    [role |-> "super_admin", department |-> "Roads", is_active |-> TRUE]]

GetAllAdmins ==
    \E requesterRole \in RequesterRoleInputs, okGet \in BOOLEAN, okSet \in BOOLEAN :
        getAllAdmins(requesterRole, okGet, okSet)

CreateAdmin ==
    \E requesterRole \in RequesterRoleInputs, email \in Admins \cup {Undefined},
       role \in RoleInputs, ok \in BOOLEAN :
        createAdmin(requesterRole, email, role, ok)

UpdateAdmin ==
    \E adminId \in Admins \cup {"a9"}, requesterRole \in RequesterRoleInputs,
       role \in {Undefined, "viewer", "boss"}, isActive \in {Undefined, "false"},
       oks \in Oks(4) :
        updateAdmin(adminId, requesterRole, role, isActive, oks)

DeleteAdmin ==
    \E adminId \in Admins \cup {"a9"}, requesterRole \in RequesterRoleInputs,
       requesterId \in {"a1"}, oks \in Oks(4) :
        deleteAdmin(adminId, requesterRole, requesterId, oks)

RestoreAdmin ==
    \E adminId \in Admins \cup {"a9"}, requesterRole \in RequesterRoleInputs,
       oks \in Oks(4) :
        restoreAdmin(adminId, requesterRole, oks)

NextAdmins ==
    \/ GetAllAdmins
    \/ CreateAdmin
    \/ UpdateAdmin
    \/ DeleteAdmin
    \/ RestoreAdmin
    \/ Deliver
    \/ RedisReady
    \/ RedisEnd
    \/ Expire

SpecAdmins == InitAdmins /\ [][NextAdmins]_vars

AdminMutations == {"createAdmin", "updateAdmin", "deleteAdmin", "restoreAdmin"}

\* C7: after createAdmin, updateAdmin, deleteAdmin or restoreAdmin succeeds
\* (cache reachable, no command failing), the bypass flag is in the cache:
\* the handler set it and its own invalidation did not remove it.
C7_BypassFlagPresent ==
    (res.h \in AdminMutations /\ Succeeded /\ CacheHealthy) =>
        bypassCacheKey \in DOMAIN cache

-----------------------------------------------------------------------------
(* Cache key against store query on the read paths.  A request is the      *)
(* record of its parameters; its query is the record of the values the SQL *)
(* statement is run with.                                                  *)

\* parseInt on the pagination values of the model
parseInt(v) ==
    CASE v = "50" -> 50
      [] v = "20" -> 20
      [] v = "10" -> 10
      [] OTHER -> 0

\* the WHERE clause and parameters getUserReports builds
getUserReports_query(userId, isResolved, category, priority, limit, offset) ==
    [user_id |-> userId,
     is_resolved |-> IF isResolved # Undefined
                     THEN (IF isResolved = "true" THEN "true" ELSE "false")
                     ELSE "any",
     category |-> IF Truthy(category) THEN category ELSE "any",
     priority |-> IF Truthy(priority) THEN priority ELSE "any",
     limit |-> parseInt(limit),
     offset |-> parseInt(offset)]

\* the parameters getNearbyReports runs the haversine query with
getNearbyReports_query(latitude, longitude, radius, limit, offset, currentUserId) ==
    [latitude |-> latitude,
     longitude |-> longitude,
     radius |-> parseInt(radius),
     limit |-> parseInt(limit),
     offset |-> parseInt(offset),
     exclude |-> IF Truthy(currentUserId) THEN currentUserId ELSE "nobody"]

IsResolvedInputs == {Undefined, "", "all", "true", "false"}
LatitudeInputs == {233441, 233444, 233446}
LimitInputs == {Undefined, "20"}

Requests ==
    [userId : {"u1"}, isResolved : IsResolvedInputs, latitude : LatitudeInputs,
     limit : LimitInputs]

NoKeys == [endpoint |-> "none", keys |-> <<>>, queries |-> <<>>]

InitKeys ==
    /\ reports = EmptyTable
    /\ users = [u \in Users |-> [total_reports |-> 0, resolved_reports |-> 0]]
    /\ social_posts = EmptyTable
    /\ social_votes = EmptyTable
    /\ social_views = {}
    /\ admins = EmptyTable
    /\ cache = EmptyTable
    /\ redis = FALSE
    /\ res = NoRes
    /\ \E a \in Requests, b \in Requests : kq = [a |-> a, b |-> b, built |-> NoKeys]

UserReportsKey(r) ==
    getUserReports_cacheKey(r.userId, r.isResolved, Undefined, Undefined,
                            Default(r.limit, "50"), Default(Undefined, "0"))

UserReportsQuery(r) ==
    getUserReports_query(r.userId, r.isResolved, Undefined, Undefined,
                         Default(r.limit, "50"), Default(Undefined, "0"))

NearbyReportsKey(r) ==
    getNearbyReports_cacheKey(toFixed3(r.latitude), toFixed3(Coord("A")[2]),
                              Default(Undefined, "10"), Default(r.limit, "20"),
                              Default(Undefined, "0"), r.userId)

NearbyReportsQuery(r) ==
    getNearbyReports_query(r.latitude, Coord("A")[2], Default(Undefined, "10"),
                           Default(r.limit, "20"), Default(Undefined, "0"), r.userId)

BuildUserReports ==
    /\ kq.built = NoKeys
    /\ kq' = [kq EXCEPT !.built =
                [endpoint |-> "getUserReports",
                 keys |-> <<UserReportsKey(kq.a), UserReportsKey(kq.b)>>,
                 queries |-> <<UserReportsQuery(kq.a), UserReportsQuery(kq.b)>>]]
    /\ UNCHANGED <<dbvars, cache, redis, res>>

BuildNearbyReports ==
    /\ kq.built = NoKeys
    /\ kq' = [kq EXCEPT !.built =
                [endpoint |-> "getNearbyReports",
                 keys |-> <<NearbyReportsKey(kq.a), NearbyReportsKey(kq.b)>>,
                 queries |-> <<NearbyReportsQuery(kq.a), NearbyReportsQuery(kq.b)>>]]
    /\ UNCHANGED <<dbvars, cache, redis, res>>

NextKeys ==
    \/ BuildUserReports
    \/ BuildNearbyReports

SpecKeys == InitKeys /\ [][NextKeys]_vars

\* C10: two requests to the same endpoint that get the same cache key run
\* the same store query.
C10_SameKeySameQuery ==
    (kq.built # NoKeys /\ kq.built.keys[1] = kq.built.keys[2])
        => kq.built.queries[1] = kq.built.queries[2]

-----------------------------------------------------------------------------
(* Normalisation of omitted filters and of default pagination in the keys *)
(* of getUserReports, getAdminReports and getSocialPosts                  *)

KeyEndpoints == {"getUserReports", "getAdminReports", "getSocialPosts"}
FilterInputs == {Undefined, "true"}
OffsetInputs == {Undefined, "20"}

FilterRequests ==
    [endpoint : KeyEndpoints, isResolved : FilterInputs,
     category : {Undefined, "Roads & Infrastructure"}, priority : {Undefined, "high"},
     department : {Undefined, "Roads"}, tab : {Undefined, "trending"},
     limit : LimitInputs, offset : OffsetInputs]

\* const { limit = 50 } / { limit = 20 } = req.query
DefaultLimit(endpoint) == IF endpoint = "getSocialPosts" THEN "20" ELSE "50"

\* the same request with every omitted filter sent as "all" and every
\* omitted pagination value sent as its default
Explicit(r) ==
    [endpoint |-> r.endpoint,
     isResolved |-> Default(r.isResolved, "all"),
     category |-> Default(r.category, "all"),
     priority |-> Default(r.priority, "all"),
     department |-> Default(r.department, "all"),
     tab |-> Default(r.tab, "all"),
     limit |-> Default(r.limit, DefaultLimit(r.endpoint)),
     offset |-> Default(r.offset, "0")]

UserKeyOf(r) ==
    getUserReports_cacheKey("u1", r.isResolved, r.category, r.priority,
                            Default(r.limit, "50"), Default(r.offset, "0"))

AdminKeyOf(r) ==
    getAdminReports_cacheKey("a1", "admin", "Roads", r.isResolved, r.category,
                             r.priority, r.department, Undefined,
                             Default(r.limit, "50"), Default(r.offset, "0"))

\* getSocialPosts has no isResolved or department filter
SocialKeyOf(r) ==
    getSocialPosts_cacheKey(Default(r.tab, "all"), Default(r.limit, "20"),
                            Default(r.offset, "0"), Undefined, Undefined, Undefined,
                            Default(Undefined, "10"), r.category, r.priority)

InitDefaults ==
    /\ reports = EmptyTable
    /\ users = [u \in Users |-> [total_reports |-> 0, resolved_reports |-> 0]]
    /\ social_posts = EmptyTable
    /\ social_votes = EmptyTable
    /\ social_views = {}
    /\ admins = EmptyTable
    /\ cache = EmptyTable
    /\ redis = FALSE
    /\ res = NoRes
    /\ \E r \in FilterRequests : kq = [req |-> r, built |-> NoKeys]

BuildUserKeys ==
    /\ kq.built = NoKeys /\ kq.req.endpoint = "getUserReports"
    /\ kq' = [kq EXCEPT !.built =
                [endpoint |-> "getUserReports",
                 keys |-> <<UserKeyOf(kq.req), UserKeyOf(Explicit(kq.req))>>,
                 queries |-> <<>>]]
    /\ UNCHANGED <<dbvars, cache, redis, res>>

BuildAdminKeys ==
    /\ kq.built = NoKeys /\ kq.req.endpoint = "getAdminReports"
    /\ kq' = [kq EXCEPT !.built =
                [endpoint |-> "getAdminReports",
                 keys |-> <<AdminKeyOf(kq.req), AdminKeyOf(Explicit(kq.req))>>,
                 queries |-> <<>>]]
    /\ UNCHANGED <<dbvars, cache, redis, res>>

BuildSocialKeys ==
    /\ kq.built = NoKeys /\ kq.req.endpoint = "getSocialPosts"
    /\ kq' = [kq EXCEPT !.built =
                [endpoint |-> "getSocialPosts",
                 keys |-> <<SocialKeyOf(kq.req), SocialKeyOf(Explicit(kq.req))>>,
                 queries |-> <<>>]]
    /\ UNCHANGED <<dbvars, cache, redis, res>>

NextDefaults ==
    \/ BuildUserKeys
    \/ BuildAdminKeys
    \/ BuildSocialKeys

SpecDefaults == InitDefaults /\ [][NextDefaults]_vars

\* C11: on every cached read endpoint a request that omits optional filters
\* and pagination gets the same cache key as the request that sends the
\* filters as "all" and the pagination defaults explicitly.
C11_OmittedEqualsExplicit ==
    kq.built # NoKeys => kq.built.keys[1] = kq.built.keys[2]

C11_Witness ==
    /\ kq.built # NoKeys /\ kq.built.endpoint = "getUserReports"
    /\ kq.req.isResolved = Undefined /\ kq.req.category = Undefined
    /\ kq.req.limit = Undefined /\ kq.req.offset = Undefined
    /\ kq.built.keys[2][3] = "all"

-----------------------------------------------------------------------------
(* The caller in the key and in the query of the personalised reads *)

\* the parameters getSocialPosts runs its query with
getSocialPosts_query(tab, limit, offset, requestingUserId, category, priority) ==
    [voter |-> IF Truthy(requestingUserId) THEN requestingUserId ELSE "nobody",
     owner |-> IF tab = "my_activity" /\ Truthy(requestingUserId)
               THEN requestingUserId ELSE "any",
     trending |-> (tab = "trending"),
     category |-> IF Truthy(category) THEN category ELSE "any",
     priority |-> IF Truthy(priority) THEN priority ELSE "any",
     limit |-> parseInt(limit),
     offset |-> parseInt(offset)]

\* req.userId || req.body?.userId || req.query?.userId || null
CallerInputs == Users \cup {Undefined}
TabInputs == {Undefined, "my_activity"}

CallerRequests == [caller : CallerInputs, tab : TabInputs, limit : LimitInputs]

InitCallers ==
    /\ reports = EmptyTable
    /\ users = [u \in Users |-> [total_reports |-> 0, resolved_reports |-> 0]]
    /\ social_posts = EmptyTable
    /\ social_votes = EmptyTable
    /\ social_views = {}
    /\ admins = EmptyTable
    /\ cache = EmptyTable
    /\ redis = FALSE
    /\ res = NoRes
    /\ \E a \in CallerRequests, b \in CallerRequests :
          kq = [a |-> a, b |-> b, built |-> NoKeys]

CallerUserKey(r) ==
    getUserReports_cacheKey(r.caller, Undefined, Undefined, Undefined,
                            Default(r.limit, "50"), Default(Undefined, "0"))

CallerUserQuery(r) ==
    getUserReports_query(r.caller, Undefined, Undefined, Undefined,
                         Default(r.limit, "50"), Default(Undefined, "0"))

CallerNearbyKey(r) ==
    getNearbyReports_cacheKey(toFixed3(Coord("A")[1]), toFixed3(Coord("A")[2]),
                              Default(Undefined, "10"), Default(r.limit, "20"),
                              Default(Undefined, "0"), r.caller)

CallerNearbyQuery(r) ==
    getNearbyReports_query(Coord("A")[1], Coord("A")[2], Default(Undefined, "10"),
                           Default(r.limit, "20"), Default(Undefined, "0"), r.caller)

CallerSocialKey(r) ==
    getSocialPosts_cacheKey(Default(r.tab, "all"), Default(r.limit, "20"),
                            Default(Undefined, "0"), r.caller, Undefined, Undefined,
                            Default(Undefined, "10"), Undefined, Undefined)

CallerSocialQuery(r) ==
    getSocialPosts_query(Default(r.tab, "all"), Default(r.limit, "20"),
                         Default(Undefined, "0"), r.caller, Undefined, Undefined)

\* getUserReports answers 400 without a userId: both requests name a user
BuildCallerUserReports ==
    /\ kq.built = NoKeys /\ Truthy(kq.a.caller) /\ Truthy(kq.b.caller)
    /\ kq' = [kq EXCEPT !.built =
                [endpoint |-> "getUserReports",
                 keys |-> <<CallerUserKey(kq.a), CallerUserKey(kq.b)>>,
                 queries |-> <<CallerUserQuery(kq.a), CallerUserQuery(kq.b)>>]]
    /\ UNCHANGED <<dbvars, cache, redis, res>>

BuildCallerNearbyReports ==
    /\ kq.built = NoKeys
    /\ kq' = [kq EXCEPT !.built =
                [endpoint |-> "getNearbyReports",
                 keys |-> <<CallerNearbyKey(kq.a), CallerNearbyKey(kq.b)>>,
                 queries |-> <<CallerNearbyQuery(kq.a), CallerNearbyQuery(kq.b)>>]]
    /\ UNCHANGED <<dbvars, cache, redis, res>>

BuildCallerSocialPosts ==
    /\ kq.built = NoKeys
    /\ kq' = [kq EXCEPT !.built =
                [endpoint |-> "getSocialPosts",
                 keys |-> <<CallerSocialKey(kq.a), CallerSocialKey(kq.b)>>,
                 queries |-> <<CallerSocialQuery(kq.a), CallerSocialQuery(kq.b)>>]]
    /\ UNCHANGED <<dbvars, cache, redis, res>>

NextCallers ==
    \/ BuildCallerUserReports
    \/ BuildCallerNearbyReports
    \/ BuildCallerSocialPosts

SpecCallers == InitCallers /\ [][NextCallers]_vars

\* C12: two requests of different callers (two users, or a user and an
\* anonymous caller) to a personalised read never get the same cache key:
\* whenever the keys are equal the queries are run for the same caller.
C12_SameKeySameCaller ==
    (kq.built # NoKeys /\ kq.built.keys[1] = kq.built.keys[2])
        => /\ kq.a.caller = kq.b.caller
           /\ kq.built.queries[1] = kq.built.queries[2]

C12_Witness ==
    /\ kq.built # NoKeys /\ kq.built.endpoint = "getSocialPosts"
    /\ kq.a.caller = "u1" /\ kq.b.caller = "u2"
    /\ kq.a.tab = kq.b.tab /\ kq.a.limit = kq.b.limit
    /\ kq.built.keys[1] # kq.built.keys[2]
    /\ kq.built.queries[1].voter = "u1" /\ kq.built.queries[2].voter = "u2"

-----------------------------------------------------------------------------
(* Specification of report creation over an area that already holds        *)
(* reports: a number of unresolved, recent reports at location A, and      *)
(* possibly a resolved one, one older than the window, and one at another  *)
(* location B.                                                             *)

MaxPrior == 15

ScorerLocations == {"A", "B"}
ScorerPriorityInputs == {Undefined, "", "auto", "high"}
ScorerCategoryInputs == {Undefined, "Traffic & Transport", "Roads & Infrastructure"}
PriorCategories == {"other", "Traffic & Transport"}
PriorKinds == {"resolved", "old", "far"}

PriorId(i) == "p" \o ToString(i)

\* a stored report of user u2
PriorRow(category, location, is_resolved, days_old) ==
    [user_id |-> "u2", category |-> category, priority |-> "low",
     location |-> location, is_resolved |-> is_resolved, days_old |-> days_old,
     status |-> "submitted", assigned_admin_id |-> NoAdmin]

PriorReports(n, category, kinds) ==
    [r \in {PriorId(i) : i \in 1..n} \cup kinds |->
        IF r = "resolved" THEN PriorRow(category, "A", TRUE, 0)
        ELSE IF r = "old" THEN PriorRow(category, "A", FALSE, 31)
        ELSE IF r = "far" THEN PriorRow(category, "B", FALSE, 0)
        ELSE PriorRow(category, "A", FALSE, 0)]

InitScorer ==
    /\ \E n \in 0..MaxPrior, category \in PriorCategories, kinds \in SUBSET PriorKinds :
        /\ reports = PriorReports(n, category, kinds)
        /\ users = [u \in Users |->
                      [total_reports |-> IF u = "u2" THEN n + Cardinality(kinds) ELSE 0,
                       resolved_reports |-> IF u = "u2" /\ "resolved" \in kinds
                                            THEN 1 ELSE 0]]
    /\ social_posts = EmptyTable
    /\ social_votes = EmptyTable
    /\ social_views = {}
    /\ admins = EmptyTable
    /\ cache = EmptyTable
    /\ redis = FALSE
    /\ res = NoRes
    /\ kq = NoKq

CreateScoredReport ==
    \E priority \in ScorerPriorityInputs, category \in ScorerCategoryInputs,
       location \in ScorerLocations \cup {NoLoc}, okCount \in BOOLEAN :
        createReport("r1", "u1", priority, category, location, okCount, TRUE,
                     [i \in 1..4 |-> TRUE])

NextScorer ==
    \/ CreateScoredReport
    \/ Deliver

SpecScorer == InitScorer /\ [][NextScorer]_vars

\* a step of createReport for an existing user: its request is res'.args
Creates == res = NoRes /\ res'.h = "createReport"
RequestedPriority == res'.args[3]
RequestedCategory == OrElse(res'.args[4], "")
RequestedLocation == res'.args[5]
CountFailed == res'.args[6] = "failed"
Stored == reports'[res'.args[2]]

\* C13: when the nearby-count query of the scorer fails during a creation
\* with automatic priority, the report is still committed, with the stored
\* priority 'medium'.
C13_FailedScoringStoresMedium ==
    [][(Creates /\ RequestedPriority = "auto" /\ CountFailed)
          => (res'.status = 201 /\ res'.tx = "committed"
              /\ res'.args[2] \in DOMAIN reports'
              /\ Stored.priority = "medium")]_vars

\* the creation was scored and committed
Scored == Creates /\ res'.status = 201 /\ OrElse(RequestedPriority, "auto") = "auto"

\* the claimed weights and tiers
SeverityWeight(category) ==
    IF category \in highSeverityCategories THEN 3
    ELSE IF category \in mediumSeverityCategories THEN 2
    ELSE 1
Tier(score) ==
    IF score < 3 THEN "low"
    ELSE IF score < 8 THEN "medium"
    ELSE IF score < 15 THEN "high"
    ELSE "critical"

\* C14: the automatic priority is the tier of nearbyCount * severityWeight,
\* with weight 3 for a high-severity category, 2 for a medium-severity one
\* and 1 otherwise; score < 3 is low, 3 <= score < 8 medium, 8 <= score < 15
\* high and score >= 15 critical.
C14_TierOfWeightedCount ==
    [][Scored => Stored.priority =
                   Tier(nearbyCount(Local, RequestedLocation)
                        * SeverityWeight(RequestedCategory))]_vars

\* a report scored exactly on the boundary 15 = 5 * 3 is stored
C14_Witness ==
    /\ res.h = "createReport" /\ res.status = 201 /\ res.args[3] = "auto"
    /\ res.args[4] = "Traffic & Transport"
    /\ Cardinality({r \in DOMAIN reports \ {"r1"} :
                       reports[r].location = res.args[5] /\ ~reports[r].is_resolved
                       /\ reports[r].days_old <= 30}) = 5
    /\ reports["r1"].priority = "critical"

\* the reports stored before the request that are unresolved, inside the
\* window and within the radius of the new report
StoredNearby ==
    {r \in DOMAIN reports : /\ ~reports[r].is_resolved
                            /\ reports[r].days_old <= 30
                            /\ reports[r].location = RequestedLocation}

\* C15: the nearby count is the number of reports already stored that are
\* unresolved and within the window and the radius; it never includes the
\* report being created.  With five such reports, a sixth report of a
\* high-severity category is stored as 'critical'.
C15_CountsStoredUnresolvedNearby ==
    [][Scored =>
         /\ res'.args[2] \notin StoredNearby
         /\ Stored.priority =
                computedPriority(Cardinality(StoredNearby)
                                 * SeverityWeight(RequestedCategory))
         /\ (Cardinality(StoredNearby) = 5
             /\ RequestedCategory \in highSeverityCategories)
                => Stored.priority = "critical"]_vars

\* the sixth report at A, beside a resolved one, an old one and a far one
C15_Witness ==
    /\ res.h = "createReport" /\ res.status = 201 /\ res.args[3] = "auto"
    /\ res.args[4] = "Traffic & Transport" /\ res.args[5] = "A"
    /\ {PriorId(i) : i \in 1..5} \cup PriorKinds \cup {"r1"} = DOMAIN reports
    /\ reports["r1"].priority = "critical"

\* C16 as claimed: the scorer runs only for the explicit value 'auto'; any
\* other request is stored with the caller's value unchanged.
C16_ScorerOnlyOnExplicitAuto ==
    [][(Creates /\ RequestedPriority # "auto")
          => (res'.status = 201 /\ Stored.priority = RequestedPriority)]_vars

\* C16: the scorer runs when the priority of the request is 'auto', missing
\* or empty, and the scorer's tier is stored; for any other value the scorer
\* is not invoked (its failure does not matter) and the stored priority is
\* the caller's value unchanged.
C16_ScorerOnAutoOrMissing ==
    [][Creates =>
         /\ (Truthy(RequestedPriority) /\ RequestedPriority # "auto")
               => (res'.status = 201 /\ Stored.priority = RequestedPriority)
         /\ (Scored /\ ~Truthy(RequestedPriority))
               => Stored.priority =
                      computedPriority(nearbyCount(Local, RequestedLocation)
                                       * SeverityWeight(RequestedCategory))
         /\ (~Scored /\ res'.status = 201) => Truthy(RequestedPriority)]_vars

\* an explicit tier is stored although the count query would have failed,
\* among enough reports for the scorer to have said otherwise
C16_Witness ==
    /\ res.h = "createReport" /\ res.status = 201 /\ res.args[3] = "high"
    /\ res.args[6] = "failed" /\ res.args[5] = "A"
    /\ PriorId(1) \notin DOMAIN reports
    /\ reports["r1"].priority = "high"

-----------------------------------------------------------------------------
(* Specification of the conflicting requests: resolving a report and       *)
(* creating its social post, each possibly for the second time, beside the *)
(* reads that fill the cache.                                              *)

InitConflicts ==
    /\ reports = [r \in ReportIds |->
                    [user_id |-> "u1", category |-> "other", priority |-> "low",
                     location |-> "A", is_resolved |-> FALSE, days_old |-> 0,
                     status |-> "submitted",
                     assigned_admin_id |-> NoAdmin]]
    /\ users = [u \in Users |->
                    [total_reports |-> IF u = "u1" THEN 1 ELSE 0, resolved_reports |-> 0]]
    /\ social_posts = EmptyTable
    /\ social_votes = EmptyTable
    /\ social_views = {}
    /\ admins = [a \in {"a1"} |->
                    [role |-> "admin", department |-> "Roads", is_active |-> TRUE]]
    /\ cache = EmptyTable
    /\ redis = FALSE
    /\ res = NoRes
    /\ kq = NoKq

NextConflicts ==
    \/ ResolveReport
    \/ CreateSocialPost
    \/ GetUserReports
    \/ GetSocialFeed
    \/ Deliver
    \/ RedisReady
    \/ RedisEnd

SpecConflicts == InitConflicts /\ [][NextConflicts]_vars

\* a valid admin asks to resolve a report that is already resolved
ReResolves ==
    /\ res = NoRes /\ res'.h = "resolveReport"
    /\ res'.args[1] \in DOMAIN reports /\ reports[res'.args[1]].is_resolved
    /\ res'.args[2] \in DOMAIN admins /\ admins[res'.args[2]].is_active
    /\ admins[res'.args[2]].role = res'.args[3]

\* the owner asks for a social post of a report that already has one
DuplicatesPost ==
    /\ res = NoRes /\ res'.h = "createSocialPost"
    /\ res'.args[1] \in DOMAIN reports /\ reports[res'.args[1]].user_id = res'.args[2]
    /\ res'.args[1] \in DOMAIN social_posts

RowsUnchanged ==
    UNCHANGED <<reports, users, social_posts, social_votes, social_views, admins>>

NothingDeleted ==
    /\ DOMAIN cache \subseteq DOMAIN cache'
    /\ \A i \in DOMAIN res'.log : res'.log[i].op \notin DeletionOps

\* C17: resolving an already resolved report, or creating a social post for
\* a report that already has one, is rejected with the conflict status
\* (409), leaves every stored row unchanged with the transaction rolled
\* back, and deletes no cache entry.
C17_ConflictRejected ==
    [][(ReResolves \/ DuplicatesPost)
          => (res'.status = 409 /\ res'.tx = "rolledback"
              /\ RowsUnchanged /\ NothingDeleted)]_vars

-----------------------------------------------------------------------------
(* transaction(callback), statement by statement.  kq holds one call: the  *)
(* callback issues cb.statements writes on the client and then returns or  *)
(* throws cb.throws.  The connection to the database may be lost at any    *)
(* moment; from then on pool.connect() and every statement reject, and     *)
(* the server discards the open transaction.                               *)

MaxStatements == 2

CallbackErrors == {NoError, "Report not found"}
ConnectError == "connect ECONNREFUSED"
StatementError == "Connection terminated unexpectedly"
NotQueryable == "Client has encountered a connection error and is not queryable"

InitTransaction ==
    /\ reports = EmptyTable
    /\ users = EmptyTable
    /\ social_posts = EmptyTable
    /\ social_votes = EmptyTable
    /\ social_views = {}
    /\ admins = EmptyTable
    /\ cache = EmptyTable
    /\ redis = FALSE
    /\ res = NoRes
    /\ \E n \in 0..MaxStatements, e \in CallbackErrors, up \in BOOLEAN :
         kq = [pc |-> "connect", alive |-> up,
               cb |-> [statements |-> n, throws |-> e],
               acquired |-> FALSE, released |-> 0,
               issued |-> 0, pending |-> {}, visible |-> {},
               tx |-> "none", returned |-> FALSE,
               caught |-> NoError, thrown |-> NoError]

Step(r) == kq' = r /\ UNCHANGED <<dbvars, cache, redis, res>>

\* const client = await pool.connect(), outside the try
transaction_connect ==
    /\ kq.pc = "connect"
    /\ IF kq.alive
       THEN Step([kq EXCEPT !.pc = "BEGIN", !.acquired = TRUE])
       ELSE Step([kq EXCEPT !.pc = "done", !.thrown = ConnectError])

\* await client.query('BEGIN')
transaction_BEGIN ==
    /\ kq.pc = "BEGIN"
    /\ IF kq.alive
       THEN Step([kq EXCEPT !.pc = "callback", !.tx = "open"])
       ELSE Step([kq EXCEPT !.pc = "ROLLBACK", !.caught = StatementError])

\* const result = await callback(client): its next statement, its throw or
\* its return
transaction_callback ==
    /\ kq.pc = "callback"
    /\ IF kq.issued < kq.cb.statements
       THEN IF kq.alive
            THEN Step([kq EXCEPT !.issued = @ + 1, !.pending = @ \cup {kq.issued + 1}])
            ELSE Step([kq EXCEPT !.pc = "ROLLBACK", !.caught = StatementError])
       ELSE IF kq.cb.throws # NoError
            THEN Step([kq EXCEPT !.pc = "ROLLBACK", !.caught = kq.cb.throws])
            ELSE Step([kq EXCEPT !.pc = "COMMIT", !.returned = TRUE])

\* await client.query('COMMIT')
transaction_COMMIT ==
    /\ kq.pc = "COMMIT"
    /\ IF kq.alive
       THEN Step([kq EXCEPT !.pc = "release", !.tx = "committed",
                            !.visible = @ \cup kq.pending, !.pending = {}])
       ELSE Step([kq EXCEPT !.pc = "ROLLBACK", !.caught = StatementError])

\* catch (error) { await client.query('ROLLBACK'); throw error }: a ROLLBACK
\* that rejects leaves the catch block with its own error
transaction_ROLLBACK ==
    /\ kq.pc = "ROLLBACK"
    /\ IF kq.alive
       THEN Step([kq EXCEPT !.pc = "release", !.tx = "rolledback", !.pending = {},
                            !.thrown = kq.caught])
       ELSE Step([kq EXCEPT !.pc = "release", !.thrown = NotQueryable])

\* finally { client.release() }
transaction_release ==
    /\ kq.pc = "release"
    /\ Step([kq EXCEPT !.pc = "done", !.released = @ + 1])

\* the connection breaks: the server rolls the open transaction back
ConnectionLost ==
    /\ kq.pc # "done" /\ kq.alive
    /\ Step([kq EXCEPT !.alive = FALSE, !.pending = {},
                       !.tx = IF @ = "open" THEN "rolledback" ELSE @])

NextTransaction ==
    \/ transaction_connect
    \/ transaction_BEGIN
    \/ transaction_callback
    \/ transaction_COMMIT
    \/ transaction_ROLLBACK
    \/ transaction_release
    \/ ConnectionLost

SpecTransaction == InitTransaction /\ [][NextTransaction]_vars

\* the callback, or a statement in it, threw
CallbackThrew == kq.acquired /\ kq.tx # "none" /\ ~kq.returned

\* C18: transaction(callback) commits exactly when the callback returns
\* normally; when the callback or a statement in it throws, the transaction
\* is rolled back, none of the callback's writes is visible, the same error
\* is rethrown, and the pooled client is released exactly once on every
\* path.
C18_CommitOrRollback ==
    kq.pc = "done" =>
        /\ (kq.tx = "committed") <=> kq.returned
        /\ CallbackThrew =>
              /\ kq.tx = "rolledback"
              /\ kq.visible = {}
              /\ kq.thrown = kq.caught
        /\ kq.acquired => kq.released = 1

-----------------------------------------------------------------------------
(* The handlers while the database is unavailable: pool.connect() rejects  *)
(* in query() and in transaction(), before any statement is sent.  The     *)
(* handlers catch the error themselves; none of them passes it on to the   *)
(* error middleware of the application.                                    *)

\* transaction(callback) when pool.connect() rejects: the callback never runs
transaction_unavailable(s0) == [s |-> s0, thrown |-> ConnectError]

createReport_unavailable(id, userId) ==
    /\ Idle
    /\ id \notin DOMAIN reports
    /\ IF ~Truthy(userId)
       THEN Respond("createReport", <<userId, id, "invalid">>, Local, 400)
       ELSE LET t == transaction_unavailable(Local)
            IN IF t.thrown = "User not found"
               THEN Respond("createReport", <<userId, id, "rejected">>, t.s, 404)
               ELSE Respond("createReport", <<userId, id, "rejected">>, t.s, 500)

updateReport_unavailable(reportId, userId) ==
    /\ Idle
    /\ LET t == transaction_unavailable(Local)
           args == <<reportId, userId, "rejected">>
       IN IF t.thrown = "Report not found or access denied"
          THEN Respond("updateReport", args, t.s, 404)
          ELSE IF t.thrown \in {"Cannot update a resolved report", "No fields to update"}
          THEN Respond("updateReport", args, t.s, 400)
          ELSE Respond("updateReport", args, t.s, 500)

\* a cached list is served without the database; on a miss query() rejects
getUserReports_unavailable(userId, okGet) ==
    /\ Idle
    /\ LET cacheKey == getUserReports_cacheKey(userId, Undefined, Undefined, Undefined,
                                               Default(Undefined, "50"),
                                               Default(Undefined, "0"))
       IN IF ~Truthy(userId)
          THEN Respond("getUserReports", <<userId, "none", "invalid">>, Local, 400)
          ELSE IF getCachedReports(Local, okGet, cacheKey)
          THEN Respond("getUserReports", <<userId, "cached", "unused">>, Local, 200)
          ELSE Respond("getUserReports", <<userId, "none", "rejected">>,
                       Local, 500)

InitStore == InitConflicts

CreateReportUnavailable ==
    \E id \in {"r2"}, userId \in UserIdInputs : createReport_unavailable(id, userId)

UpdateReportUnavailable ==
    \E reportId \in ReportIds, userId \in Users : updateReport_unavailable(reportId, userId)

GetUserReportsUnavailable ==
    \E userId \in Users \cup {Undefined}, okGet \in BOOLEAN :
        getUserReports_unavailable(userId, okGet)

NextStore ==
    \/ CreateReportUnavailable
    \/ UpdateReportUnavailable
    \/ GetUserReportsUnavailable
    \/ GetUserReports
    \/ UpdateReport
    \/ Deliver
    \/ RedisReady
    \/ RedisEnd

SpecStore == InitStore /\ [][NextStore]_vars

\* the request reached for the database and found it unavailable
StoreUnavailable == res.h # "none" /\ res.args[Len(res.args)] = "rejected"

\* C19: a request during which the store is unavailable is answered with
\* the retryable service-unavailable status (503), which differs from the
\* answers to validation failures and to rows not found.
C19_StoreUnavailableIs503 ==
    StoreUnavailable => (res.status = 503 /\ res.status \notin {400, 404})

-----------------------------------------------------------------------------
(* RedisService.set, get and del on one key, with the values.  A           *)
(* JavaScript value is a record of its type and its JSON text (for a       *)
(* string, the string itself); Redis holds a string.  kq holds the key:    *)
(* the string stored (or Absent), the seconds left of its TTL, and for the *)
(* properties the value last set, what became of the key, and the result   *)
(* of the latest command.                                                  *)

MaxTTL == 2

Absent == "<absent>"
ObjectText == "{\"reports\":[]}"
null == [type |-> "null", text |-> "null"]
NoValue == [type |-> "none", text |-> ""]

Values ==
    {[type |-> "object", text |-> ObjectText],
     [type |-> "string", text |-> "hello"],
     [type |-> "string", text |-> "true"],
     [type |-> "boolean", text |-> "true"],
     [type |-> "number", text |-> "30"]}

\* typeof value === 'string' ? value : JSON.stringify(value)
stringValue(value) == value.text

\* try { return JSON.parse(value) } catch { return value }
JSON_parse(value) ==
    IF value = "true" THEN [type |-> "boolean", text |-> value]
    ELSE IF value = "30" THEN [type |-> "number", text |-> value]
    ELSE IF value = "null" THEN null
    ELSE IF value = ObjectText THEN [type |-> "object", text |-> value]
    ELSE [type |-> "string", text |-> value]

InitCache ==
    /\ reports = EmptyTable
    /\ users = EmptyTable
    /\ social_posts = EmptyTable
    /\ social_votes = EmptyTable
    /\ social_views = {}
    /\ admins = EmptyTable
    /\ cache = EmptyTable
    /\ redis = FALSE
    /\ res = NoRes
    /\ kq = [stored |-> Absent, ttl |-> 0, last |-> NoValue, life |-> "never",
             op |-> "none", served |-> FALSE, result |-> NoValue]

\* async set(key, value, ttl)
RedisService_set ==
    \E value \in Values, ttl \in 1..MaxTTL, ok \in BOOLEAN :
        IF isAvailable /\ ok
        THEN Step([kq EXCEPT !.stored = stringValue(value), !.ttl = ttl,
                             !.last = value, !.life = "live",
                             !.op = "set", !.served = TRUE, !.result = NoValue])
        ELSE Step([kq EXCEPT !.op = "set", !.served = FALSE, !.result = NoValue])

\* async get(key)
RedisService_get ==
    \E ok \in BOOLEAN :
        IF isAvailable /\ ok
        THEN Step([kq EXCEPT !.op = "get", !.served = TRUE,
                             !.result = IF kq.stored = Absent THEN null
                                        ELSE JSON_parse(kq.stored)])
        ELSE Step([kq EXCEPT !.op = "get", !.served = FALSE, !.result = null])

\* async del(key)
RedisService_del ==
    \E ok \in BOOLEAN :
        IF isAvailable /\ ok
        THEN Step([kq EXCEPT !.stored = Absent, !.ttl = 0,
                             !.life = IF @ = "never" THEN @ ELSE "deleted",
                             !.op = "del", !.served = TRUE, !.result = NoValue])
        ELSE Step([kq EXCEPT !.op = "del", !.served = FALSE, !.result = NoValue])

\* a second passes: Redis drops the key when its TTL has elapsed
Second ==
    /\ kq.stored # Absent
    /\ IF kq.ttl > 1
       THEN Step([kq EXCEPT !.ttl = @ - 1, !.op = "none"])
       ELSE Step([kq EXCEPT !.stored = Absent, !.ttl = 0, !.life = "expired",
                            !.op = "none"])

NextCache ==
    \/ RedisService_set
    \/ RedisService_get
    \/ RedisService_del
    \/ Second
    \/ RedisReady
    \/ RedisEnd

SpecCache == InitCache /\ [][NextCache]_vars

\* C20: a get that Redis serves returns not-found for a key that was never
\* set, was deleted, or whose TTL has elapsed (so a get later than the TTL
\* after the set finds nothing), and returns the value last set otherwise.
C20_GetReturnsLastSet ==
    (kq.op = "get" /\ kq.served) =>
        IF kq.life \in {"never", "deleted", "expired"}
        THEN kq.result = null
        ELSE kq.result = kq.last

-----------------------------------------------------------------------------
(* deletePattern and invalidatePattern command by command, beside the      *)
(* cache fills of concurrent reads.  kq holds the call and the keyspace:   *)
(* every key present carries the time of its last SET, "before" or         *)
(* "after" the moment the call was made (the mutation has committed by     *)
(* then).  SCAN walks the keyspace bucket by bucket, one bucket for each   *)
(* call of client.scan; a key present during the whole walk is returned.   *)

PatternFunctions == {"deletePattern", "invalidatePattern"}
Pattern == <<"social_posts", "*">>
PatternKeys ==
    {<<"social_posts", "all">>, <<"social_posts", "trending">>, <<"user_reports", "u1">>}
Buckets == 1..2
Bucket(k) == IF k = <<"social_posts", "all">> THEN 1 ELSE 2

InitPattern ==
    /\ reports = EmptyTable
    /\ users = EmptyTable
    /\ social_posts = EmptyTable
    /\ social_votes = EmptyTable
    /\ social_views = {}
    /\ admins = EmptyTable
    /\ cache = EmptyTable
    /\ res = NoRes
    /\ redis \in BOOLEAN
    /\ \E f \in PatternFunctions, present \in SUBSET PatternKeys :
         kq = [fn |-> f, pc |-> "call", cursor |-> 1, keys |-> {},
               store |-> [k \in present |-> "before"],
               failed |-> FALSE, returned |-> "none"]

\* the entry of the function: deletePattern returns false without Redis
Pattern_call ==
    /\ kq.pc = "call"
    /\ IF kq.fn = "deletePattern" /\ ~isAvailable
       THEN Step([kq EXCEPT !.pc = "returned", !.returned = "false", !.failed = TRUE])
       ELSE Step([kq EXCEPT !.pc = "scanKeys"])

\* scanKeys(pattern): its isAvailable() guard
Pattern_scanKeys ==
    /\ kq.pc = "scanKeys"
    /\ IF ~isAvailable
       THEN Step([kq EXCEPT !.pc = "scanned", !.keys = {}, !.failed = TRUE])
       ELSE Step([kq EXCEPT !.pc = "scan"])

\* one pass of the do-while taking only the keys of the first client.scan
Pattern_scan_once ==
    /\ kq.pc = "scan"
    /\ \E ok \in BOOLEAN :
        IF ~redis \/ ~ok
        THEN Step([kq EXCEPT !.pc = "scanned", !.keys = {}, !.failed = TRUE])
        ELSE Step([kq EXCEPT !.pc = "scanned",
                     !.keys = @ \cup {k \in DOMAIN kq.store :
                                         Bucket(k) = kq.cursor /\ GlobMatch(Pattern, k)}])

\* one pass of the do-while: client.scan(cursor, {MATCH, COUNT}); an error
\* is caught and scanKeys returns []
Pattern_scan ==
    /\ kq.pc = "scan"
    /\ \E ok \in BOOLEAN :
        IF ~redis \/ ~ok
        THEN Step([kq EXCEPT !.pc = "scanned", !.keys = {}, !.failed = TRUE])
        ELSE Step([kq EXCEPT
                     !.keys = @ \cup {k \in DOMAIN kq.store :
                                         Bucket(k) = kq.cursor /\ GlobMatch(Pattern, k)},
                     !.cursor = @ + 1,
                     !.pc = IF kq.cursor + 1 \in Buckets THEN "scan" ELSE "scanned"])

\* if (keys.length > 0) await this.client.del(keys) / await this.del(keys)
Pattern_del ==
    /\ kq.pc = "scanned"
    /\ \E ok \in BOOLEAN :
        LET result == IF kq.fn = "deletePattern" THEN "true" ELSE "keys.length" IN
        IF kq.keys = {}
        THEN Step([kq EXCEPT !.pc = "returned", !.returned = result])
        ELSE IF redis /\ ok
        THEN Step([kq EXCEPT !.pc = "returned", !.returned = result,
                             !.store = Without(@, kq.keys)])
        ELSE Step([kq EXCEPT !.pc = "returned", !.failed = TRUE,
                     !.returned = IF kq.fn = "deletePattern" THEN "false" ELSE result])

\* a concurrent read stores its list: client.setEx
Pattern_fill ==
    /\ redis
    /\ \E k \in PatternKeys : Step([kq EXCEPT !.store = With(@, k, "after")])

\* the TTL of a key elapses
Pattern_expire ==
    \E k \in DOMAIN kq.store : Step([kq EXCEPT !.store = Without(@, {k})])

NextPattern ==
    \/ Pattern_call
    \/ Pattern_scanKeys
    \/ Pattern_scan
    \/ Pattern_del
    \/ Pattern_fill
    \/ Pattern_expire
    \/ RedisReady
    \/ RedisEnd

SpecPattern == InitPattern /\ [][NextPattern]_vars

\* the matching keys still holding what was written before the call
StaleKeys == {k \in DOMAIN kq.store : GlobMatch(Pattern, k) /\ kq.store[k] = "before"}

-----------------------------------------------------------------------------
(* Concurrent requests.  Each request runs its transaction on its own      *)
(* pooled client; the statements of different clients interleave.  The     *)
(* database runs them at its default isolation level, READ COMMITTED (no   *)
(* statement of the source sets another level or locks a row by SELECT FOR *)
(* UPDATE): a SELECT sees the committed rows and the client's own writes;  *)
(* a writing statement waits while another client holds an uncommitted     *)
(* write of the row, and then acts on the row as last committed.           *)
(*                                                                         *)
(* kq.db maps a row to [val, new, owner]: the committed value, the value   *)
(* written by the transaction of client `owner`, and that client (0 when   *)
(* no transaction has written the row).  RowAbsent is a row not stored.    *)

Clients == {1, 2}
RowAbsent == "<no row>"

Row(v) == [val |-> v, new |-> v, owner |-> 0]

\* what a SELECT of client c returns for row r
Read(c, r) == IF kq.db[r].owner = c THEN kq.db[r].new ELSE kq.db[r].val

\* client c may write row r now: no other transaction holds a write of it
CanWrite(c, r) == kq.db[r].owner \in {0, c}

Written(db, c, r, v) == [db EXCEPT ![r] = [val |-> @.val, new |-> v, owner |-> c]]

\* COMMIT and ROLLBACK of the transaction of client c
Committed(db, c) ==
    [r \in DOMAIN db |-> IF db[r].owner = c THEN Row(db[r].new) ELSE db[r]]
RolledBack(db, c) ==
    [r \in DOMAIN db |-> IF db[r].owner = c THEN Row(db[r].val) ELSE db[r]]

InitConcurrent ==
    /\ reports = EmptyTable
    /\ users = EmptyTable
    /\ social_posts = EmptyTable
    /\ social_votes = EmptyTable
    /\ social_views = {}
    /\ admins = EmptyTable
    /\ cache = EmptyTable
    /\ redis = FALSE
    /\ res = NoRes

-----------------------------------------------------------------------------
(* voteOnPost, statement by statement, on one post.  The rows: the vote of *)
(* each user on the post (social_votes holds at most one row for a post    *)
(* and a user) and the post's counters.                                    *)

MaxVoteCalls == 2

VoteRow(userId) == <<"social_votes", userId>>
PostRow == <<"social_posts", "r1">>

Count(votes, voteType) == Cardinality({u \in Users : votes[u] = voteType})

NoVote == [pc |-> "idle", userId |-> Undefined, voteType |-> Undefined,
           existingVote |-> RowAbsent, upvoteChange |-> 0, downvoteChange |-> 0]

InitVotes ==
    /\ InitConcurrent
    /\ \E votes \in [Users -> {RowAbsent, "upvote", "downvote"}] :
         kq = [db |-> [r \in {VoteRow(u) : u \in Users} \cup {PostRow} |->
                         IF r = PostRow
                         THEN Row([upvotes |-> Count(votes, "upvote"),
                                   downvotes |-> Count(votes, "downvote"),
                                   total_score |-> Count(votes, "upvote")
                                                   - Count(votes, "downvote")])
                         ELSE Row(votes[r[2]])],
               proc |-> [c \in Clients |-> NoVote],
               calls |-> 0]

Proc(c, r) == kq' = [kq EXCEPT !.proc[c] = r] /\ UNCHANGED <<dbvars, cache, redis, res>>
ProcDb(c, r, db) ==
    kq' = [kq EXCEPT !.proc[c] = r, !.db = db] /\ UNCHANGED <<dbvars, cache, redis, res>>

\* the request arrives; BEGIN; SELECT id FROM social_posts finds the post
voteOnPost_begin(c) ==
    /\ kq.proc[c].pc = "idle" /\ kq.calls < MaxVoteCalls
    /\ \E userId \in Users, voteType \in {"upvote", "downvote"} :
         /\ kq' = [kq EXCEPT !.proc[c] = [NoVote EXCEPT !.pc = "existingVote",
                                                        !.userId = userId,
                                                        !.voteType = voteType],
                             !.calls = @ + 1]
         /\ UNCHANGED <<dbvars, cache, redis, res>>

\* SELECT vote_type FROM social_votes WHERE post_id = $1 AND user_id = $2
voteOnPost_existingVote(c) ==
    LET me == kq.proc[c] IN
    /\ me.pc = "existingVote"
    /\ Proc(c, [me EXCEPT !.pc = "vote", !.existingVote = Read(c, VoteRow(me.userId))])

\* DELETE, UPDATE or INSERT of the vote row, and the changes of the counters
voteOnPost_vote(c) ==
    LET me == kq.proc[c]
        r == VoteRow(me.userId)
        up == me.voteType = "upvote"
        latest == Read(c, r)
    IN
    /\ me.pc = "vote"
    /\ CanWrite(c, r)
    /\ IF me.existingVote = me.voteType
       THEN \* toggle off: DELETE, of no row when the row is gone
            ProcDb(c, [me EXCEPT !.pc = "counts",
                                 !.upvoteChange = IF up THEN -1 ELSE 0,
                                 !.downvoteChange = IF up THEN 0 ELSE -1],
                   Written(kq.db, c, r, RowAbsent))
       ELSE IF me.existingVote # RowAbsent
       THEN \* change: UPDATE, of no row when the row is gone
            ProcDb(c, [me EXCEPT !.pc = "counts",
                                 !.upvoteChange = IF up THEN 1 ELSE -1,
                                 !.downvoteChange = IF up THEN -1 ELSE 1],
                   Written(kq.db, c, r,
                           IF latest = RowAbsent THEN RowAbsent ELSE me.voteType))
       ELSE IF latest # RowAbsent
       THEN \* INSERT of a second row for the post and the user: rejected,
            \* the catch of transaction() rolls back
            ProcDb(c, [me EXCEPT !.pc = "idle"], RolledBack(kq.db, c))
       ELSE ProcDb(c, [me EXCEPT !.pc = "counts",
                                 !.upvoteChange = IF up THEN 1 ELSE 0,
                                 !.downvoteChange = IF up THEN 0 ELSE 1],
                   Written(kq.db, c, r, me.voteType))

\* the counters set with total_score taken from the counters before the vote
voteOnPost_counts_before(c) ==
    LET me == kq.proc[c]
        post == Read(c, PostRow)
    IN
    /\ me.pc = "counts"
    /\ CanWrite(c, PostRow)
    /\ ProcDb(c, [me EXCEPT !.pc = "COMMIT"],
              Written(kq.db, c, PostRow,
                      [upvotes |-> post.upvotes + me.upvoteChange,
                       downvotes |-> post.downvotes + me.downvoteChange,
                       total_score |-> post.upvotes - post.downvotes]))

\* UPDATE social_posts SET upvotes = upvotes + $1, downvotes = downvotes + $2,
\* total_score = (upvotes + $1) - (downvotes + $2)
voteOnPost_counts(c) ==
    LET me == kq.proc[c]
        post == Read(c, PostRow)
    IN
    /\ me.pc = "counts"
    /\ CanWrite(c, PostRow)
    /\ ProcDb(c, [me EXCEPT !.pc = "COMMIT"],
              Written(kq.db, c, PostRow,
                      [upvotes |-> post.upvotes + me.upvoteChange,
                       downvotes |-> post.downvotes + me.downvoteChange,
                       total_score |-> (post.upvotes + me.upvoteChange)
                                       - (post.downvotes + me.downvoteChange)]))

\* COMMIT; the response follows
voteOnPost_COMMIT(c) ==
    LET me == kq.proc[c] IN
    /\ me.pc = "COMMIT"
    /\ ProcDb(c, [me EXCEPT !.pc = "idle"], Committed(kq.db, c))

NextVotes ==
    \E c \in Clients :
        \/ voteOnPost_begin(c)
        \/ voteOnPost_existingVote(c)
        \/ voteOnPost_vote(c)
        \/ voteOnPost_counts(c)
        \/ voteOnPost_COMMIT(c)

SpecVotes == InitVotes /\ [][NextVotes]_vars

\* no call is in flight
Quiet == \A c \in Clients : kq.proc[c].pc = "idle"

StoredVotes(voteType) ==
    Cardinality({u \in Users : kq.db[VoteRow(u)].val = voteType})

\* C22: after any interleaving of voteOnPost calls on a post, two concurrent
\* calls of one user included, the post's upvotes equal the number of
\* stored upvote rows and its downvotes the number of stored downvote rows.
C22_CountersMatchRows ==
    Quiet => /\ kq.db[PostRow].val.upvotes = StoredVotes("upvote")
             /\ kq.db[PostRow].val.downvotes = StoredVotes("downvote")

\* C23: after every voteOnPost call, in every interleaving, the stored
\* total_score of the post is its stored upvotes minus its stored downvotes.
C23_TotalScore ==
    /\ kq.db[PostRow].val.total_score =
           kq.db[PostRow].val.upvotes - kq.db[PostRow].val.downvotes
    /\ kq.db[PostRow].new.total_score =
           kq.db[PostRow].new.upvotes - kq.db[PostRow].new.downvotes

\* two calls have committed and left counters that no longer match the rows
C23_Witness ==
    /\ Quiet /\ kq.calls = 2
    /\ kq.db[PostRow].val.upvotes # StoredVotes("upvote")
    /\ kq.db[PostRow].val.total_score # 0

-----------------------------------------------------------------------------
(* The report handlers that write a report and its owner's counters,       *)
(* statement by statement: updateReport, resolveReport, completeReport,    *)
(* deleteReport and createReport on the reports of user u1.  Report r0 is  *)
(* never touched, r1 is the report the requests name, and client c's       *)
(* createReport inserts report <<"new", c>>.  Admin a1 is active.          *)

MaxLifecycleCalls == 2

LifecycleOps ==
    {"updateReport", "resolveReport", "completeReport", "deleteReport", "createReport"}

ReportRow(id) == <<"reports", id>>
UserRow == <<"users", "u1">>
NewId(c) == IF c = 1 THEN "n1" ELSE "n2"

ReportRows == {ReportRow("r0"), ReportRow("r1")} \cup {ReportRow(NewId(c)) : c \in Clients}

StoredReport(is_resolved, assigned_admin_id) ==
    [user_id |-> "u1", priority |-> "low", is_resolved |-> is_resolved,
     assigned_admin_id |-> assigned_admin_id]

\* what a SELECT or a RETURNING gives when no row matches
AbsentReport == [user_id |-> "<none>", priority |-> "<none>", is_resolved |-> FALSE,
                 assigned_admin_id |-> "<none>"]

NoCall == [pc |-> "idle", op |-> "none", report |-> AbsentReport, notified |-> FALSE,
           outcome |-> "none"]

InitLifecycle ==
    /\ InitConcurrent
    /\ \E is_resolved \in BOOLEAN, assigned_admin_id \in {NoAdmin, "a1"} :
         kq = [db |-> [r \in ReportRows \cup {UserRow} |->
                         IF r = UserRow
                         THEN Row([total_reports |-> 2,
                                   resolved_reports |-> IF is_resolved THEN 1 ELSE 0])
                         ELSE IF r = ReportRow("r0") THEN Row(StoredReport(FALSE, NoAdmin))
                         ELSE IF r = ReportRow("r1")
                         THEN Row(StoredReport(is_resolved, assigned_admin_id))
                         ELSE Row(AbsentReport)],
               proc |-> [c \in Clients |-> NoCall],
               calls |-> 0,
               updatedResolved |-> FALSE]

\* the catch of transaction(): ROLLBACK, and the handler answers the error
Rollback(c) == ProcDb(c, [kq.proc[c] EXCEPT !.pc = "idle", !.outcome = "rolledback"],
                      RolledBack(kq.db, c))

\* a request arrives and its transaction begins
Lifecycle_begin(c) ==
    /\ kq.proc[c].pc = "idle" /\ kq.calls < MaxLifecycleCalls
    /\ \E op \in LifecycleOps :
         /\ op = "createReport" => Read(c, ReportRow(NewId(c))) = AbsentReport
         /\ kq' = [kq EXCEPT !.proc[c] = [NoCall EXCEPT !.pc = "select", !.op = op],
                             !.calls = @ + 1]
         /\ UNCHANGED <<dbvars, cache, redis, res>>

\* SELECT * FROM reports WHERE id = $1 and the checks on its row
updateReport_select(c) ==
    LET me == kq.proc[c]
        report == Read(c, ReportRow("r1"))
    IN /\ me.pc = "select" /\ me.op = "updateReport"
       /\ IF report = AbsentReport THEN Rollback(c)
          ELSE IF report.is_resolved THEN Rollback(c)
          ELSE Proc(c, [me EXCEPT !.pc = "write", !.report = report])

\* UPDATE reports SET ... WHERE id = $n
updateReport_UPDATE(c) ==
    LET me == kq.proc[c]
        r == ReportRow("r1")
        latest == Read(c, r)
    IN /\ me.pc = "write" /\ me.op = "updateReport"
       /\ CanWrite(c, r)
       /\ kq' = [kq EXCEPT
                   !.proc[c] = [me EXCEPT !.pc = "COMMIT"],
                   !.db = Written(kq.db, c, r,
                                  IF latest = AbsentReport THEN AbsentReport
                                  ELSE [latest EXCEPT !.priority = "high"]),
                   !.updatedResolved = @ \/ (latest # AbsentReport /\ latest.is_resolved)]
       /\ UNCHANGED <<dbvars, cache, redis, res>>

\* the admin check, SELECT * FROM reports WHERE id = $1 and its checks
resolveReport_select(c) ==
    LET me == kq.proc[c]
        report == Read(c, ReportRow("r1"))
    IN /\ me.pc = "select" /\ me.op = "resolveReport"
       /\ IF report = AbsentReport THEN Rollback(c)
          ELSE IF report.is_resolved THEN Rollback(c)
          ELSE Proc(c, [me EXCEPT !.pc = "write", !.report = report])

\* UPDATE reports SET is_resolved = true ... WHERE id = $1 RETURNING *;
\* without a row, resolved.user_id throws
resolveReport_UPDATE(c) ==
    LET me == kq.proc[c]
        r == ReportRow("r1")
        latest == Read(c, r)
    IN /\ me.pc = "write" /\ me.op = "resolveReport"
       /\ CanWrite(c, r)
       /\ IF latest = AbsentReport THEN Rollback(c)
          ELSE ProcDb(c, [me EXCEPT !.pc = "users"],
                      Written(kq.db, c, r, [latest EXCEPT !.is_resolved = TRUE]))

\* UPDATE users SET resolved_reports = resolved_reports + 1
resolveReport_users(c) ==
    LET me == kq.proc[c]
        user == Read(c, UserRow)
    IN /\ me.pc = "users" /\ me.op = "resolveReport"
       /\ CanWrite(c, UserRow)
       /\ ProcDb(c, [me EXCEPT !.pc = "notify"],
                 Written(kq.db, c, UserRow,
                         [user EXCEPT !.resolved_reports = @ + 1]))

\* await sendReportResolvedNotification(...), inside the callback: the push
\* message is sent, or it is not (no token, a messaging error); the cache
\* commands of the callback follow
resolveReport_notify(c) ==
    LET me == kq.proc[c]
    IN /\ me.pc = "notify" /\ me.op = "resolveReport"
       /\ \E sent \in BOOLEAN :
            Proc(c, [me EXCEPT !.pc = "COMMIT", !.notified = sent])

\* SELECT ... FROM reports WHERE id = $1 AND assigned_admin_id = $2
completeReport_select(c) ==
    LET me == kq.proc[c]
        report == Read(c, ReportRow("r1"))
    IN /\ me.pc = "select" /\ me.op = "completeReport"
       /\ IF report = AbsentReport \/ report.assigned_admin_id # "a1" THEN Rollback(c)
          ELSE Proc(c, [me EXCEPT !.pc = "write", !.report = report])

\* UPDATE reports SET status = 'resolved', is_resolved = true ... WHERE id =
\* $7 AND assigned_admin_id = $1, and the work log
completeReport_UPDATE(c) ==
    LET me == kq.proc[c]
        r == ReportRow("r1")
        latest == Read(c, r)
    IN /\ me.pc = "write" /\ me.op = "completeReport"
       /\ CanWrite(c, r)
       /\ IF latest = AbsentReport \/ latest.assigned_admin_id # "a1" THEN Rollback(c)
          ELSE ProcDb(c, [me EXCEPT !.pc = "COMMIT"],
                      Written(kq.db, c, r, [latest EXCEPT !.is_resolved = TRUE]))

\* SELECT * FROM reports WHERE id = $1 (the request names no userId)
deleteReport_select(c) ==
    LET me == kq.proc[c]
        report == Read(c, ReportRow("r1"))
    IN /\ me.pc = "select" /\ me.op = "deleteReport"
       /\ IF report = AbsentReport THEN Rollback(c)
          ELSE Proc(c, [me EXCEPT !.pc = "write", !.report = report])

\* DELETE FROM reports WHERE id = $1 RETURNING *: its result is not looked at
deleteReport_DELETE(c) ==
    LET me == kq.proc[c]
        r == ReportRow("r1")
    IN /\ me.pc = "write" /\ me.op = "deleteReport"
       /\ CanWrite(c, r)
       /\ ProcDb(c, [me EXCEPT !.pc = "users"], Written(kq.db, c, r, AbsentReport))

\* UPDATE users SET total_reports = GREATEST(total_reports - 1, 0),
\* resolved_reports = CASE WHEN $2 THEN GREATEST(resolved_reports - 1, 0) ...
deleteReport_users(c) ==
    LET me == kq.proc[c]
        user == Read(c, UserRow)
    IN /\ me.pc = "users" /\ me.op = "deleteReport"
       /\ CanWrite(c, UserRow)
       /\ ProcDb(c, [me EXCEPT !.pc = "COMMIT"],
                 Written(kq.db, c, UserRow,
                         [total_reports |-> Max(user.total_reports - 1, 0),
                          resolved_reports |->
                              IF me.report.is_resolved
                              THEN Max(user.resolved_reports - 1, 0)
                              ELSE user.resolved_reports]))

\* the user check and INSERT INTO reports (...) with an explicit priority
createReport_INSERT(c) ==
    LET me == kq.proc[c]
    IN /\ me.pc = "select" /\ me.op = "createReport"
       /\ ProcDb(c, [me EXCEPT !.pc = "users"],
                 Written(kq.db, c, ReportRow(NewId(c)), StoredReport(FALSE, NoAdmin)))

\* UPDATE users SET total_reports = total_reports + 1
createReport_users(c) ==
    LET me == kq.proc[c]
        user == Read(c, UserRow)
    IN /\ me.pc = "users" /\ me.op = "createReport"
       /\ CanWrite(c, UserRow)
       /\ ProcDb(c, [me EXCEPT !.pc = "COMMIT"],
                 Written(kq.db, c, UserRow, [user EXCEPT !.total_reports = @ + 1]))

\* COMMIT; when it is rejected, the catch of transaction() rolls back
Lifecycle_COMMIT(c) ==
    /\ kq.proc[c].pc = "COMMIT"
    /\ \E ok \in BOOLEAN :
         IF ok
         THEN ProcDb(c, [kq.proc[c] EXCEPT !.pc = "idle", !.outcome = "committed"],
                     Committed(kq.db, c))
         ELSE Rollback(c)

NextLifecycle ==
    \E c \in Clients :
        \/ Lifecycle_begin(c)
        \/ updateReport_select(c)
        \/ updateReport_UPDATE(c)
        \/ resolveReport_select(c)
        \/ resolveReport_UPDATE(c)
        \/ resolveReport_users(c)
        \/ resolveReport_notify(c)
        \/ completeReport_select(c)
        \/ completeReport_UPDATE(c)
        \/ deleteReport_select(c)
        \/ deleteReport_DELETE(c)
        \/ deleteReport_users(c)
        \/ createReport_INSERT(c)
        \/ createReport_users(c)
        \/ Lifecycle_COMMIT(c)

SpecLifecycle == InitLifecycle /\ [][NextLifecycle]_vars

\* the reports of u1 that are stored
StoredReports == {r \in ReportRows : kq.db[r].val # AbsentReport}

\* C24: in every interleaving of updateReport with resolveReport or
\* completeReport, no write of updateReport is applied to a report that is
\* already resolved when the write is made.
C24_NoUpdateOfResolved == ~kq.updatedResolved

\* C25: after any interleaving of resolveReport, completeReport and
\* deleteReport calls, the user's resolved_reports counter is the number of
\* the user's stored reports that are resolved.
C25_ResolvedCounter ==
    Quiet => kq.db[UserRow].val.resolved_reports =
                Cardinality({r \in StoredReports : kq.db[r].val.is_resolved})

\* C26: after any interleaving of createReport and deleteReport calls, the
\* user's total_reports counter is the number of the user's stored reports.
C26_TotalCounter ==
    Quiet => kq.db[UserRow].val.total_reports = Cardinality(StoredReports)

\* C28: the report-resolved notification is sent only for a resolution
\* whose transaction has committed: never before the commit, never for a
\* resolution that is rolled back.
C28_NotifiedOnlyCommitted ==
    \A c \in Clients : kq.proc[c].notified => kq.proc[c].outcome = "committed"

-----------------------------------------------------------------------------
(* The two writers of social_posts, statement by statement: createReport,  *)
(* which inserts the post of the report it has just committed, and         *)
(* createSocialPost.  All requests name report r1 of user u1.  The table   *)
(* definition of social_posts is not part of the sources: whether it       *)
(* carries a unique constraint on report_id is chosen in the initial       *)
(* state.                                                                  *)

MaxPostCalls == 2

SocialPostRow(n) == <<"social_posts", n>>
SocialPostRows == {SocialPostRow(n) : n \in 1..MaxPostCalls + 1}

InitPosts ==
    /\ InitConcurrent
    /\ \E stored \in {RowAbsent, "report", "report with post"}, unique \in BOOLEAN :
         kq = [db |-> [r \in SocialPostRows \cup {ReportRow("r1")} |->
                         IF r = ReportRow("r1")
                         THEN Row(IF stored = RowAbsent THEN RowAbsent ELSE "report")
                         ELSE IF r = SocialPostRow(MaxPostCalls + 1) /\ stored = "report with post"
                         THEN Row("post")
                         ELSE Row(RowAbsent)],
               proc |-> [c \in Clients |-> [pc |-> "idle", op |-> "none", slot |-> 0]],
               calls |-> 0,
               unique |-> unique]

\* the social_posts rows of report r1 that client c's statements see
PostsSeen(c) == {r \in SocialPostRows : Read(c, r) # RowAbsent}

\* an INSERT under a unique constraint waits for an uncommitted row of the
\* same report and fails on a committed one
InsertWaits(c) ==
    kq.unique /\ \E r \in SocialPostRows : kq.db[r].owner \notin {0, c} /\ kq.db[r].new # RowAbsent

InsertRejected(c) == kq.unique /\ PostsSeen(c) # {}

Posts_begin(c) ==
    /\ kq.proc[c].pc = "idle" /\ kq.calls < MaxPostCalls
    /\ \E op \in {"createReport", "createSocialPost"} :
         /\ kq' = [kq EXCEPT !.proc[c] = [pc |-> "report", op |-> op, slot |-> kq.calls + 1],
                             !.calls = @ + 1]
         /\ UNCHANGED <<dbvars, cache, redis, res>>

\* the transaction of createReport: INSERT INTO reports ... and COMMIT, or
\* an error and ROLLBACK
createReport_newReport(c) ==
    LET me == kq.proc[c]
    IN /\ me.pc = "report" /\ me.op = "createReport"
       /\ kq.db[ReportRow("r1")].val = RowAbsent
       /\ \E ok \in BOOLEAN :
            IF ok
            THEN ProcDb(c, [me EXCEPT !.pc = "socialPost"],
                        [kq.db EXCEPT ![ReportRow("r1")] = Row("report")])
            ELSE Proc(c, [me EXCEPT !.pc = "idle"])

\* query(INSERT INTO social_posts ...) after the transaction, in try/catch
createReport_autoPost(c) ==
    LET me == kq.proc[c]
    IN /\ me.pc = "socialPost" /\ me.op = "createReport"
       /\ ~InsertWaits(c)
       /\ IF InsertRejected(c) THEN Proc(c, [me EXCEPT !.pc = "idle"])
          ELSE ProcDb(c, [me EXCEPT !.pc = "idle"],
                      [kq.db EXCEPT ![SocialPostRow(me.slot)] = Row("post")])

\* SELECT ... FROM reports WHERE id = $1 AND user_id = $2
createSocialPost_report(c) ==
    LET me == kq.proc[c]
    IN /\ me.pc = "report" /\ me.op = "createSocialPost"
       /\ IF Read(c, ReportRow("r1")) = RowAbsent THEN Proc(c, [me EXCEPT !.pc = "idle"])
          ELSE Proc(c, [me EXCEPT !.pc = "existingPost"])

\* SELECT id FROM social_posts WHERE report_id = $1
createSocialPost_existingPost(c) ==
    LET me == kq.proc[c]
    IN /\ me.pc = "existingPost"
       /\ IF PostsSeen(c) # {} THEN Proc(c, [me EXCEPT !.pc = "idle"])
          ELSE Proc(c, [me EXCEPT !.pc = "INSERT"])

\* INSERT INTO social_posts (report_id, user_id, is_public, is_anonymous)
createSocialPost_INSERT(c) ==
    LET me == kq.proc[c]
    IN /\ me.pc = "INSERT"
       /\ ~InsertWaits(c)
       /\ IF InsertRejected(c) THEN Proc(c, [me EXCEPT !.pc = "idle"])
          ELSE ProcDb(c, [me EXCEPT !.pc = "COMMIT"],
                      Written(kq.db, c, SocialPostRow(me.slot), "post"))

createSocialPost_COMMIT(c) ==
    LET me == kq.proc[c]
    IN /\ me.pc = "COMMIT"
       /\ \E ok \in BOOLEAN :
            ProcDb(c, [me EXCEPT !.pc = "idle"],
                   IF ok THEN Committed(kq.db, c) ELSE RolledBack(kq.db, c))

NextPosts ==
    \E c \in Clients :
        \/ Posts_begin(c)
        \/ createReport_newReport(c)
        \/ createReport_autoPost(c)
        \/ createSocialPost_report(c)
        \/ createSocialPost_existingPost(c)
        \/ createSocialPost_INSERT(c)
        \/ createSocialPost_COMMIT(c)

SpecPosts == InitPosts /\ [][NextPosts]_vars

\* C27: after any interleaving of createReport's automatic post creation
\* and createSocialPost calls, at most one social post is stored for the
\* report.
C27_OnePostPerReport ==
    Cardinality({r \in SocialPostRows : kq.db[r].val # RowAbsent}) <= 1

-----------------------------------------------------------------------------
(* The last active super admin, under the admin handlers of SpecAdmins.    *)

ActiveSuperAdmins(table) ==
    {a \in DOMAIN table : table[a].role = "super_admin" /\ table[a].is_active}

\* C29: when an active super_admin exists, one still exists after any
\* sequence of updateAdmin, deleteAdmin and restoreAdmin calls.
C29_SuperAdminRemains ==
    [][ActiveSuperAdmins(admins) # {} => ActiveSuperAdmins(admins') # {}]_vars

-----------------------------------------------------------------------------
(* The phone OTP of one phone number: sendOTPController stores the         *)
(* generated code in the cache (otp:<phone>, 300 s) and in the in-memory   *)
(* otpStorage (5 minutes); verifyOTPController asks the cache first and    *)
(* falls back to otpStorage.  A stored entry carries the number of the     *)
(* sendOTPController call that issued it, and kq.verified counts the       *)
(* successful verifications served by the entries of each issue.           *)

MaxOtpSends == 2
MaxOtpVerifies == 3

OtpDigits == {"111111", "222222"}

\* JavaScript values: generateOTP() returns a number, a request body holds
\* a number or a string
otpNumber(digits) == [type |-> "number", digits |-> digits]
otpString(digits) == [type |-> "string", digits |-> digits]

ProvidedOtps == {otpNumber(d) : d \in OtpDigits} \cup {otpString(d) : d \in OtpDigits}

NoOtp == [otp |-> otpString("<none>"), issue |-> 0, expired |-> FALSE]

InitOtp ==
    /\ InitConcurrent
    /\ kq = [cached |-> NoOtp, otpStorage |-> NoOtp, available |-> TRUE,
             sends |-> 0, verifies |-> 0,
             verified |-> [i \in 1..MaxOtpSends |-> 0]]

\* generateOTP, redisService.cacheOTP(phoneNumber, otp, 300) (a set that
\* stores nothing when Redis is unavailable or the command fails: the
\* number survives JSON.stringify and JSON.parse), storeOTP, sendOTP
sendOTPController ==
    /\ kq.sends < MaxOtpSends
    /\ \E digits \in OtpDigits, okSet \in BOOLEAN :
         LET issue == kq.sends + 1
             entry == [otp |-> otpNumber(digits), issue |-> issue, expired |-> FALSE]
         IN Step([kq EXCEPT !.sends = issue,
                            !.cached = IF kq.available /\ okSet THEN entry ELSE @,
                            !.otpStorage = entry])

\* verifyOTP(phoneNumber, providedOtp) of the in-memory store: the entry
\* left in otpStorage and the issue whose code was accepted (0: none)
verifyOTP(storedData, providedOtp) ==
    IF storedData = NoOtp THEN [otpStorage |-> storedData, issue |-> 0]
    ELSE IF storedData.expired THEN [otpStorage |-> NoOtp, issue |-> 0]
    ELSE IF storedData.otp.digits = providedOtp.digits
    THEN [otpStorage |-> NoOtp, issue |-> storedData.issue]
    ELSE [otpStorage |-> storedData, issue |-> 0]

\* getCachedOTP; cachedOTP && cachedOTP === otp: invalidateOTP; otherwise
\* verifyOTP on otpStorage
verifyOTPController ==
    /\ kq.verifies < MaxOtpVerifies
    /\ \E otp \in ProvidedOtps, okGet \in BOOLEAN, okDel \in BOOLEAN :
         LET cachedOTP == IF kq.available /\ okGet THEN kq.cached ELSE NoOtp
             result == verifyOTP(kq.otpStorage, otp)
         IN IF cachedOTP # NoOtp /\ cachedOTP.otp = otp
            THEN Step([kq EXCEPT !.verifies = @ + 1,
                                 !.cached = IF kq.available /\ okDel THEN NoOtp ELSE @,
                                 !.verified[cachedOTP.issue] = @ + 1])
            ELSE Step([kq EXCEPT !.verifies = @ + 1,
                                 !.otpStorage = result.otpStorage,
                                 !.verified = IF result.issue = 0 THEN @
                                              ELSE [@ EXCEPT ![result.issue] = @ + 1]])

\* the connection to Redis is lost or comes back
Otp_connection ==
    \E available \in BOOLEAN \ {kq.available} : Step([kq EXCEPT !.available = available])

\* five minutes pass: the cache key expires, Date.now() > expiresAt
Otp_expire ==
    /\ kq.cached # NoOtp \/ (kq.otpStorage # NoOtp /\ ~kq.otpStorage.expired)
    /\ Step([kq EXCEPT !.cached = NoOtp,
                       !.otpStorage = IF @ = NoOtp THEN @ ELSE [@ EXCEPT !.expired = TRUE]])

NextOtp ==
    \/ sendOTPController
    \/ verifyOTPController
    \/ Otp_connection
    \/ Otp_expire

SpecOtp == InitOtp /\ [][NextOtp]_vars

\* C30: a phone OTP issued by sendOTPController verifies successfully at
\* most once, whichever store served the first verification and whether
\* or not the cache became unavailable in between.
C30_VerifiesAtMostOnce == \A i \in 1..MaxOtpSends : kq.verified[i] <= 1

====
